---- MODULE Spec2Model ----
(***************************************************************************)
(* Story execution engine of qay-web.                                      *)
(*                                                                         *)
(*   executeStory    (worker/execute-story.ts, src/unnamed/part_001)       *)
(*   executeTestRun  (src/worker/test-executor.ts)                         *)
(*                                                                         *)
(* SpecStory is one call of executeStory, one action per await point.      *)
(* Every Playwright call may reject; uploadScreenshot and authenticateUser *)
(* catch everything they raise and return a value instead.                 *)
(* Spec is one call of executeTestRun over a batch of stories, with an     *)
(* outside actor that may cancel the run. In Spec a call of executeStory   *)
(* is two steps, the call and its outcome (a result or an exception); the  *)
(* queries of the supabase client resolve to { data, error } and do not    *)
(* reject, and executeTestRun does not read their error.                   *)
(***************************************************************************)
EXTENDS Integers, Sequences, FiniteSets, TLC

\* ------------------------------------------------------------------ bounds
MaxSteps == 2
MaxRetry == 2
MaxStories == 2
MaxUrlLen == 3
MaxExpectedLen == 2
MaxCallers == 2
MaxCalls == 2
MaxWords == 2
MaxPlainLen == 2
MaxRawLen == 4

\* ------------------------------------------------------- values of the code
Undefined == "undefined"

\* messages of the errors executeStep can report for a failed attempt
StepErrors == {"locator timeout", "element disabled"}

\* verification types: the three the code handles and one it does not
VerificationTypes == {"url", "element", "content", "visual"}

\* AuthConfig.type, and Undefined for an absent authConfig
AuthConfigTypes == {"none", "basic", "form", "oauth"}

\* the stages of authenticateUser's try block that can reject
AuthStages == {"goto", "fill", "click", "waitFor"}

NoStepResult == [step |-> -1, passed |-> FALSE, error |-> Undefined]

RECURSIVE SeqsUpTo(_, _)
SeqsUpTo(S, n) ==
    IF n = 0 THEN {<<>>}
    ELSE LET shorter == SeqsUpTo(S, n - 1)
         IN  shorter \cup {Append(s, x) : s \in {t \in shorter : Len(t) = n - 1}, x \in S}

VARIABLES
    \* ---- executeStory: inputs
    story,          \* [nsteps, verifications]
    options,        \* [retryCount, screenshotOnFailure, credentials, authConfig]
    expected,       \* verification.expected of a url verification, as characters
    currentUrl,     \* what page.url() returns when the verification reads it
    \* ---- the process: executeStory calls that share the module-level browser
    callers,        \* by caller: [pc, made, got]
    launches,       \* the browsers chromium.launch() has started
    used,           \* the browsers executeStory calls have opened a context on
    \* ---- executeStep: input, position and history
    step,           \* [action, selector, element, value]
    epc,
    action,         \* the local `action`: the lower-cased label
    branch,         \* the branch of the if / else-if chain that was taken
    pwCalls,        \* the calls made on the page, in order: <<[op, arg], ...>>
    raised,         \* message of the exception the try block raised, or Undefined
    stepReturn,     \* the StepResult executeStep returned
    \* ---- findElement: input, position, locals and history
    target,         \* the target text, as characters
    fpc,
    strategies,     \* the local array of strategies, once it is built
    si,             \* the strategies of the list tried so far
    tried,          \* the strategies evaluated, in order
    visible,        \* what the latest isVisible check gave: "visible", "hidden", "throws"
    found,          \* what findElement returned: [by, locator]
    \* ---- lib/crypto.ts: environment, inputs, position, locals and history
    encryptionKey,  \* process.env.ENCRYPTION_KEY, "" when it is not set
    plaintext,      \* the string given to encrypt, as UTF-16 code units
    ciphertext,     \* the text encrypt returned or decrypt is given, as characters
    cpc,
    salt,
    derivedKey,     \* what deriveKey returned
    parts,          \* the local `parts` of decrypt
    deriveCalls,    \* the callers of deriveKey, in order
    decipherCalls,  \* createDecipheriv calls
    decrypted,      \* the string decrypt returned, as UTF-16 code units
    cryptoError,    \* message of the error encrypt or decrypt threw, or Undefined
    rekeyed,        \* ENCRYPTION_KEY changed between encrypt and decrypt
    \* ---- module state and resources
    browser,        \* the module-level `browser`: "null" or "launched"
    context,        \* the story's BrowserContext: "none", "open", "closed"
    \* ---- executeStory: position and locals
    spc,
    i, attempts, lastError, stepResult,
    stepResults, passed, error, screenshotUrl, retries,
    vi,             \* index of the next verification of the for..of loop
    \* ---- executeStory: what happened so far (history)
    log,            \* the executeStep calls in order: <<[step, passed], ...>>
    lastCall,       \* the StepResult the latest executeStep call returned
    authResult,     \* Undefined, "success" or the error authenticateUser returned
    baseGotos,      \* page.goto(baseUrl) calls of the prelude
    screenshots,    \* page.screenshot() calls
    uploads,        \* uploadScreenshot calls
    verified,       \* verifications evaluated
    verifyLog,      \* the verifications evaluated, in order: <<[index, type, error], ...>>
    caught,         \* message of the exception the outer catch caught, or Undefined
    thrown,         \* message of the exception executeStory threw, or Undefined
    \* ---- executeTestRun: the test users and the loop that decrypts them
    testUsers,      \* the enabled test_users rows: <<[role, password_encrypted], ...>>
    ui,             \* the users the for..of loop has taken
    decryptLog,     \* the decrypt calls of the loop: <<[role, threw, error], ...>>
    \* ---- executeTestRun: inputs
    stories,        \* the enabled stories in position order: <<[required_role], ...>>
    environment,    \* [auth_config]
    credentialsMap, \* the roles that have decrypted credentials
    \* ---- the persistence collaborator's tables
    testRun,        \* the test_runs row
    testResults,    \* the test_results rows inserted, in order
    lastResult,     \* stories.last_result by story
    \* ---- executeTestRun: position and locals
    rpc,
    idx,            \* the loop variable i of the loop over stories
    counts,         \* the locals passed, failed, skipped
    callOptions,    \* the options of the executeStory call in flight
    \* ---- executeTestRun: what happened so far (history)
    progress,       \* the onProgress calls in order
    storyCalls,     \* the executeStory calls in order: <<[story, options], ...>>
    storyOutcomes,  \* how each call ended: <<[story, threw, passed, error], ...>>
    cancelledAt     \* where executeTestRun was when the run was cancelled

processVars == <<callers, launches, used>>
findVars == <<target, fpc, strategies, si, tried, visible, found>>
stepVars == <<step, epc, action, branch, pwCalls, raised, stepReturn>>
userVars == <<testUsers, ui, decryptLog>>
cryptoVars == <<encryptionKey, plaintext, ciphertext, cpc, salt, derivedKey, parts,
                deriveCalls, decipherCalls, decrypted, cryptoError, rekeyed>>

\* what no step of executeStory or executeTestRun changes
inputVars == <<story, options, expected, currentUrl, processVars, findVars,
               stepVars, cryptoVars, userVars>>
localVars == <<i, attempts, lastError, stepResult, stepResults, passed, error,
               screenshotUrl, retries, vi>>
historyVars == <<log, lastCall, authResult, baseGotos, screenshots, uploads, verified, verifyLog,
                 caught,
                 thrown>>
storyVars == <<inputVars, browser, context, spc, localVars, historyVars>>

runVars == <<stories, environment, credentialsMap, testRun, testResults, lastResult,
             rpc, idx, counts, callOptions, progress, storyCalls, storyOutcomes,
             cancelledAt>>

vars == <<storyVars, runVars>>

\* what the steps of the callers of executeStory leave alone
callVars == <<story, options, expected, currentUrl, findVars, stepVars, cryptoVars, userVars, context,
              spc, localVars, historyVars, runVars>>

\* what the steps of findElement leave alone
notFindVars == <<story, options, expected, currentUrl, processVars, stepVars, cryptoVars, userVars, browser,
                 context, spc, localVars, historyVars, runVars>>

\* what the steps of executeStep leave alone
notStepVars == <<story, options, expected, currentUrl, processVars, findVars, cryptoVars, userVars, browser,
                 context, spc, localVars, historyVars, runVars>>

\* what the steps of encrypt and decrypt leave alone
notCryptoVars == <<story, options, expected, currentUrl, processVars, findVars, stepVars,
                   userVars, browser, context, spc, localVars, historyVars, runVars>>

\* ------------------------------------------------------------ lib/crypto.ts
\* A string is the sequence of its UTF-16 code units, a Buffer the sequence
\* of its bytes, a base64 text a sequence of one-character strings.
IV_LENGTH == 16
TAG_LENGTH == 16
SALT_LENGTH == 32

IsHighSurrogate(c) == c >= 55296 /\ c <= 56319
IsLowSurrogate(c) == c >= 56320 /\ c <= 57343

\* mutant of Utf8Encode: one byte per code unit
Utf8Encode_Latin1(units) == [k \in 1..Len(units) |-> units[k] % 256]

\* line 31: cipher.update(plaintext, "utf8") encodes the string as UTF-8; a
\* surrogate pair is one code point, an unpaired surrogate becomes U+FFFD
RECURSIVE Utf8Encode(_)
Utf8Encode(units) ==
    IF units = <<>> THEN <<>>
    ELSE LET c == units[1]
         IN  IF IsHighSurrogate(c) /\ Len(units) >= 2 /\ IsLowSurrogate(units[2])
                THEN LET cp == 65536 + (c - 55296) * 1024 + (units[2] - 56320)
                     IN  <<240 + (cp \div 262144), 128 + ((cp \div 4096) % 64),
                           128 + ((cp \div 64) % 64), 128 + (cp % 64)>>
                         \o Utf8Encode(Tail(Tail(units)))
             ELSE IF IsHighSurrogate(c) \/ IsLowSurrogate(c)
                THEN <<239, 191, 189>> \o Utf8Encode(Tail(units))
             ELSE IF c < 128
                THEN <<c>> \o Utf8Encode(Tail(units))
             ELSE IF c < 2048
                THEN <<192 + (c \div 64), 128 + (c % 64)>> \o Utf8Encode(Tail(units))
             ELSE <<224 + (c \div 4096), 128 + ((c \div 64) % 64), 128 + (c % 64)>>
                  \o Utf8Encode(Tail(units))

\* the continuation bytes a lead byte asks for (0: no lead byte of a sequence)
Continuations(b) ==
    IF b >= 194 /\ b <= 223 THEN 1
    ELSE IF b >= 224 /\ b <= 239 THEN 2
    ELSE IF b >= 240 /\ b <= 244 THEN 3
    ELSE 0

\* the bytes allowed at place j after lead byte b
ContinuationRange(b, j) ==
    IF j > 1 THEN 128..191
    ELSE IF b = 224 THEN 160..191
    ELSE IF b = 237 THEN 128..159
    ELSE IF b = 240 THEN 144..191
    ELSE IF b = 244 THEN 128..143
    ELSE 128..191

\* line 66: decrypted.toString("utf8") decodes UTF-8; every ill-formed stretch
\* becomes U+FFFD, a four-byte sequence becomes a surrogate pair
RECURSIVE Utf8Decode(_)
Utf8Decode(bytes) ==
    IF bytes = <<>> THEN <<>>
    ELSE LET b == bytes[1]
             n == Continuations(b)
             ok(j) == j + 1 <= Len(bytes) /\ bytes[j + 1] \in ContinuationRange(b, j)
             m == Cardinality({j \in 1..n : \A h \in 1..j : ok(h)})
             rest == SubSeq(bytes, m + 2, Len(bytes))
         IN  IF b < 128 THEN <<b>> \o Utf8Decode(Tail(bytes))
             ELSE IF n = 0 \/ m < n THEN <<65533>> \o Utf8Decode(rest)
             ELSE IF n = 1
                THEN <<(b - 192) * 64 + (bytes[2] - 128)>> \o Utf8Decode(rest)
             ELSE IF n = 2
                THEN <<(b - 224) * 4096 + (bytes[2] - 128) * 64 + (bytes[3] - 128)>>
                     \o Utf8Decode(rest)
             ELSE LET cp == (b - 240) * 262144 + (bytes[2] - 128) * 4096
                            + (bytes[3] - 128) * 64 + (bytes[4] - 128) - 65536
                  IN  <<55296 + (cp \div 1024), 56320 + (cp % 1024)>> \o Utf8Decode(rest)

Base64Alphabet ==
    <<"A", "B", "C", "D", "E", "F", "G", "H", "I", "J", "K", "L", "M", "N", "O", "P",
      "Q", "R", "S", "T", "U", "V", "W", "X", "Y", "Z", "a", "b", "c", "d", "e", "f",
      "g", "h", "i", "j", "k", "l", "m", "n", "o", "p", "q", "r", "s", "t", "u", "v",
      "w", "x", "y", "z", "0", "1", "2", "3", "4", "5", "6", "7", "8", "9", "+", "/">>

Base64Value(ch) == (CHOOSE k \in 1..64 : Base64Alphabet[k] = ch) - 1

Pow2(n) == IF n = 0 THEN 1 ELSE IF n = 2 THEN 4 ELSE IF n = 4 THEN 16
           ELSE IF n = 6 THEN 64 ELSE IF n = 8 THEN 256 ELSE 1024

\* lines 38-41: buffer.toString("base64"): six bits a character, padded with =
Base64Encode(bytes) ==
    LET n == Len(bytes)
        nchars == (8 * n + 5) \div 6
        value(j) ==
            LET bit == 6 * (j - 1)
                at == (bit \div 8) + 1
                window == bytes[at] * 256 + (IF at + 1 <= n THEN bytes[at + 1] ELSE 0)
            IN  (window \div Pow2(10 - (bit % 8))) % 64
    IN  [j \in 1..(4 * ((n + 2) \div 3)) |->
            IF j <= nchars THEN Base64Alphabet[value(j) + 1] ELSE "="]

\* lines 52-55: Buffer.from(text, "base64"): the characters before the first =
\* that are of the alphabet, eight bits a byte, leftover bits dropped
Base64Decode(text) ==
    LET stop == IF \E k \in 1..Len(text) : text[k] = "="
                THEN (CHOOSE k \in 1..Len(text) :
                         text[k] = "=" /\ \A h \in 1..(k - 1) : text[h] # "=") - 1
                ELSE Len(text)
        InAlphabet(ch) == \E k \in 1..64 : Base64Alphabet[k] = ch
        data == SelectSeq(SubSeq(text, 1, stop), InAlphabet)
        byte(k) ==
            LET bit == 8 * (k - 1)
                at == (bit \div 6) + 1
                window == Base64Value(data[at]) * 64 + Base64Value(data[at + 1])
            IN  (window \div Pow2(4 - (bit % 6))) % 256
    IN  [k \in 1..((6 * Len(data)) \div 8) |-> byte(k)]

\* line 42: fields.join(":")
RECURSIVE JoinFields(_)
JoinFields(fields) ==
    IF Len(fields) = 1 THEN fields[1]
    ELSE fields[1] \o <<":">> \o JoinFields(Tail(fields))

\* line 46: ciphertext.split(":")
RECURSIVE Split(_)
Split(text) ==
    IF \A k \in 1..Len(text) : text[k] # ":" THEN <<text>>
    ELSE LET at == CHOOSE k \in 1..Len(text) :
                      text[k] = ":" /\ \A h \in 1..(k - 1) : text[h] # ":"
         IN  <<SubSeq(text, 1, at - 1)>> \o Split(SubSeq(text, at + 1, Len(text)))

\* line 47: parts.length !== 4
WrongFormat(fields) == Len(fields) # 4

RECURSIVE Sum(_)
Sum(bytes) == IF bytes = <<>> THEN 0 ELSE bytes[1] + Sum(Tail(bytes))

\* the values process.env.ENCRYPTION_KEY takes: unset, and two secrets
EncryptionKeys == {"", "alpha", "beta"}
SecretCode == [alpha |-> 11, beta |-> 29]

\* lines 25, 27: randomBytes(n), two of its outcomes
RandomBytes(n) == {[k \in 1..n |-> (seed + 7 * k) % 256] : seed \in {0, 173}}

\* line 21: scrypt(key, salt, 32), a stand-in that depends on secret and salt
Scrypt(secret, saltBytes) == (SecretCode[secret] + Sum(saltBytes)) % 256

\* the key stream of the cipher at place k, a stand-in that depends on key and iv
KeyStream(derived, ivBytes, k) == (3 * derived + Sum(ivBytes) + 5 * k) % 256

\* lines 29-33: createCipheriv(...).update(...) and final()
CipherUpdate(derived, ivBytes, bytes) ==
    [k \in 1..Len(bytes) |-> (bytes[k] + KeyStream(derived, ivBytes, k)) % 256]

\* lines 58-64: createDecipheriv(...).update(...) and final()
DecipherUpdate(derived, ivBytes, bytes) ==
    [k \in 1..Len(bytes) |-> (bytes[k] + 256 - KeyStream(derived, ivBytes, k)) % 256]

\* line 34: cipher.getAuthTag(), a stand-in that depends on key, iv and data
AuthTag(derived, ivBytes, bytes) ==
    [j \in 1..TAG_LENGTH |-> (derived + Sum(ivBytes) + Sum(bytes) + j) % 256]

\* the characters of the plaintexts: A, a colon, e acute (two bytes), the euro
\* sign (three bytes), an emoji (four bytes, a surrogate pair)
PlainCharacters == {<<65>>, <<58>>, <<233>>, <<8364>>, <<55357, 56832>>}

RECURSIVE Concat(_)
Concat(ss) == IF ss = <<>> THEN <<>> ELSE ss[1] \o Concat(Tail(ss))

Plaintexts == {Concat(cs) : cs \in SeqsUpTo(PlainCharacters, MaxPlainLen)}

\* no encrypt call: decrypt is given a text from elsewhere
NoPlaintext == <<-1>>

\* the texts decrypt is given that encrypt did not make
RawInputs == SeqsUpTo({"Q", ":"}, MaxRawLen)

KeyNotSet == "ENCRYPTION_KEY environment variable is not set"
InvalidFormat == "Invalid ciphertext format"
DecipherFailed == "Unsupported state or unable to authenticate data"

CryptoIdle ==
    /\ encryptionKey = ""
    /\ plaintext = NoPlaintext
    /\ ciphertext = <<>>
    /\ cpc = "idle"
    /\ salt = <<>>
    /\ derivedKey = 0
    /\ parts = <<>>
    /\ deriveCalls = <<>>
    /\ decipherCalls = 0
    /\ decrypted = <<>>
    /\ cryptoError = Undefined
    /\ rekeyed = FALSE

\* lines 11-26: encrypt draws the salt and derives the key; getEncryptionKey
\* throws when the variable is unset or empty
EncryptDerive ==
    /\ cpc = "encrypt"
    /\ \E bytes \in RandomBytes(SALT_LENGTH) :
          /\ salt' = bytes
          /\ IF encryptionKey = ""
             THEN /\ cryptoError' = KeyNotSet
                  /\ cpc' = "threw"
                  /\ UNCHANGED <<derivedKey, deriveCalls>>
             ELSE /\ derivedKey' = Scrypt(encryptionKey, bytes)
                  /\ deriveCalls' = Append(deriveCalls, "encrypt")
                  /\ cpc' = "encryptKeyed"
                  /\ UNCHANGED cryptoError
    /\ UNCHANGED <<encryptionKey, plaintext, ciphertext, parts, decipherCalls, decrypted,
                   rekeyed, notCryptoVars>>

\* lines 27-42: the iv, the cipher, the tag, the four base64 fields joined
EncryptFinish ==
    /\ cpc = "encryptKeyed"
    /\ \E iv \in RandomBytes(IV_LENGTH) :
          LET encrypted == CipherUpdate(derivedKey, iv, Utf8Encode(plaintext))
              tag == AuthTag(derivedKey, iv, encrypted)
          IN  ciphertext' = JoinFields(<<Base64Encode(salt), Base64Encode(iv),
                                         Base64Encode(tag), Base64Encode(encrypted)>>)
    /\ cpc' = "stored"
    /\ UNCHANGED <<encryptionKey, plaintext, salt, derivedKey, parts, deriveCalls,
                   decipherCalls, decrypted, cryptoError, rekeyed, notCryptoVars>>

\* line 12: the process that decrypts runs with another ENCRYPTION_KEY than
\* the one that encrypted
ChangeKey ==
    /\ cpc = "stored"
    /\ ~rekeyed
    /\ encryptionKey' \in EncryptionKeys \ {encryptionKey}
    /\ rekeyed' = TRUE
    /\ UNCHANGED <<plaintext, ciphertext, cpc, salt, derivedKey, parts, deriveCalls,
                   decipherCalls, decrypted, cryptoError, notCryptoVars>>

\* lines 46-49: decrypt splits its input and rejects what has not four fields
DecryptSplit ==
    /\ cpc \in {"stored", "decrypt"}
    /\ parts' = Split(ciphertext)
    /\ IF WrongFormat(parts')
       THEN /\ cryptoError' = InvalidFormat
            /\ cpc' = "threw"
       ELSE /\ cpc' = "decryptSplit"
            /\ UNCHANGED cryptoError
    /\ UNCHANGED <<encryptionKey, plaintext, ciphertext, salt, derivedKey, deriveCalls,
                   decipherCalls, decrypted, rekeyed, notCryptoVars>>

\* lines 51-57: the salt is decoded and the key derived
DecryptDerive ==
    /\ cpc = "decryptSplit"
    /\ salt' = Base64Decode(parts[1])
    /\ IF encryptionKey = ""
       THEN /\ cryptoError' = KeyNotSet
            /\ cpc' = "threw"
            /\ UNCHANGED <<derivedKey, deriveCalls>>
       ELSE /\ derivedKey' = Scrypt(encryptionKey, salt')
            /\ deriveCalls' = Append(deriveCalls, "decrypt")
            /\ cpc' = "decryptKeyed"
            /\ UNCHANGED cryptoError
    /\ UNCHANGED <<encryptionKey, plaintext, ciphertext, parts, decipherCalls, decrypted,
                   rekeyed, notCryptoVars>>

\* lines 58-66: the decipher checks the tag and the plaintext is decoded; an
\* empty iv, or a tag that is not the tag of the data under this key, throws
DecryptFinish ==
    /\ cpc = "decryptKeyed"
    /\ decipherCalls' = decipherCalls + 1
    /\ LET iv == Base64Decode(parts[2])
           tag == Base64Decode(parts[3])
           encrypted == Base64Decode(parts[4])
       IN  IF iv = <<>> \/ tag # AuthTag(derivedKey, iv, encrypted)
           THEN /\ cryptoError' = DecipherFailed
                /\ cpc' = "threw"
                /\ UNCHANGED decrypted
           ELSE /\ decrypted' = Utf8Decode(DecipherUpdate(derivedKey, iv, encrypted))
                /\ cpc' = "returned"
                /\ UNCHANGED cryptoError
    /\ UNCHANGED <<encryptionKey, plaintext, ciphertext, salt, derivedKey, parts,
                   deriveCalls, rekeyed, notCryptoVars>>

\* lines 24-43: what encrypt returns for the salt and iv drawn
Encrypt(plain, secret, saltBytes, ivBytes) ==
    LET derived == Scrypt(secret, saltBytes)
        encrypted == CipherUpdate(derived, ivBytes, Utf8Encode(plain))
        tag == AuthTag(derived, ivBytes, encrypted)
    IN  JoinFields(<<Base64Encode(saltBytes), Base64Encode(ivBytes),
                     Base64Encode(tag), Base64Encode(encrypted)>>)

\* lines 45-67: what decrypt does with a text: [threw, error, value]
Decrypt(text, secret) ==
    LET fields == Split(text)
    IN  IF WrongFormat(fields)
           THEN [threw |-> TRUE, error |-> InvalidFormat, value |-> <<>>]
        ELSE IF secret = ""
           THEN [threw |-> TRUE, error |-> KeyNotSet, value |-> <<>>]
        ELSE LET derived == Scrypt(secret, Base64Decode(fields[1]))
                 ivBytes == Base64Decode(fields[2])
                 tag == Base64Decode(fields[3])
                 encrypted == Base64Decode(fields[4])
             IN  IF ivBytes = <<>> \/ tag # AuthTag(derived, ivBytes, encrypted)
                    THEN [threw |-> TRUE, error |-> DecipherFailed, value |-> <<>>]
                 ELSE [threw |-> FALSE, error |-> Undefined,
                       value |-> Utf8Decode(DecipherUpdate(derived, ivBytes, encrypted))]

\* ------------------------------------------- executeTestRun: the test users
\* the ENCRYPTION_KEY of the worker process
WorkerKey == "alpha"

FirstRandom(n) == CHOOSE bytes \in RandomBytes(n) : bytes[1] = 7

\* test_users.password_encrypted: a password stored under the worker's key,
\* one stored under another key, and a text that is no ciphertext
StoredUnderKey == Encrypt(<<112, 119, 58, 233>>, WorkerKey, FirstRandom(SALT_LENGTH),
                          FirstRandom(IV_LENGTH))
StoredUnderOtherKey == Encrypt(<<112, 119>>, "beta", FirstRandom(SALT_LENGTH),
                               FirstRandom(IV_LENGTH))
Malformed == <<"Q", ":", "Q">>

\* the enabled test users of the environment: at most one per role
\* (UNIQUE(environment_id, role)); an admin that is absent, decrypts or is
\* malformed, a member that is absent, decrypts or was stored under another key
TestUserLists ==
    {a \o m :
        a \in {<<>>} \cup {<<[role |-> "admin", password_encrypted |-> c]>> :
                               c \in {StoredUnderKey, Malformed}},
        m \in {<<>>} \cup {<<[role |-> "member", password_encrypted |-> c]>> :
                               c \in {StoredUnderKey, StoredUnderOtherKey}}}

UsersIdle ==
    /\ testUsers = <<>>
    /\ ui = 0
    /\ decryptLog = <<>>

\* mutant of KeepCredentials: a role whose password did not decrypt is kept
KeepCredentials_Always(map, role, result) == map \cup {role}

\* lines 78-86: credentialsMap[user.role] is set when decrypt returned; the
\* catch only logs
KeepCredentials(map, role, result) ==
    IF result.threw THEN map ELSE map \cup {role}

\* lines 76-87: one turn of the loop over the test users
DecryptUser ==
    /\ rpc = "start"
    /\ ui < Len(testUsers)
    /\ LET user == testUsers[ui + 1]
           result == Decrypt(user.password_encrypted, WorkerKey)
       IN  /\ credentialsMap' = KeepCredentials(credentialsMap, user.role, result)
           /\ decryptLog' = Append(decryptLog,
                  [role |-> user.role, threw |-> result.threw, error |-> result.error])
    /\ ui' = ui + 1
    /\ UNCHANGED <<story, options, expected, currentUrl, processVars, findVars,
                   stepVars, cryptoVars, testUsers, browser, context, spc, localVars,
                   historyVars, stories, environment, testRun, testResults,
                   lastResult, rpc, idx, counts, callOptions, progress, storyCalls,
                   storyOutcomes, cancelledAt>>

\* ---------------------------------------------------- executeStory: inputs
\* the outcomes of the stories: no verification, one of each type, and pairs
\* that put a verification after an ignored, a passing or a failing one
Outcomes ==
    {<<>>} \cup {<<t>> : t \in VerificationTypes}
    \cup {<<"visual", "url">>, <<"url", "content">>, <<"element", "url">>}

Stories == [nsteps : 0..MaxSteps, verifications : Outcomes]

ExecutionOptionsSet ==
    [retryCount : 0..MaxRetry,
     screenshotOnFailure : BOOLEAN,
     credentials : BOOLEAN,
     authConfig : AuthConfigTypes \cup {Undefined}]

\* ------------------------------------------- executeStory: the conditions
\* mutant of ShouldAuthenticate: any kind of authConfig starts the login
ShouldAuthenticate_AnyAuthConfig(opts) ==
    opts.credentials /\ opts.authConfig # Undefined

\* line 350: options.credentials && options.authConfig && type === 'form'
ShouldAuthenticate(opts) ==
    opts.credentials /\ opts.authConfig # Undefined /\ opts.authConfig = "form"

\* mutant of LoopCondition: one iteration too many
LoopCondition_OneMore(att, retryCount) == att <= retryCount + 1

\* line 374: while (attempts <= options.retryCount)
LoopCondition(att, retryCount) == att <= retryCount

\* line 385: if (attempts <= options.retryCount) wait before the retry
WaitBeforeRetry(att, retryCount) == att <= retryCount

\* mutant of CountRetry: the last failed attempt of a step is not counted
CountRetry_OnlyBeforeRetry(r, att, retryCount) == IF att <= retryCount THEN r + 1 ELSE r

\* line 383: retries++ (att is attempts after line 382)
CountRetry(r, att, retryCount) == r + 1

\* mutant of BreakOnPass: the loop goes on after a passing attempt
BreakOnPass_Never(res) == FALSE

\* line 377: if (stepResult.passed) break
BreakOnPass(res) == res.passed

\* mutant of StepFailed: best effort, the loop goes on to the next step
StepFailed_Never(res) == FALSE

\* mutant of StepFailed: every recorded step ends the story as failed
StepFailed_Always(res) == TRUE

\* line 393: if (!stepResult.passed) { ... break }
StepFailed(res) == ~res.passed

\* mutant of AuthFailureThrows: a failed login is ignored
AuthFailureThrows_Never(res) == FALSE

\* line 357: if (!authResult.success) throw
AuthFailureThrows(res) == res # "success"

\* mutant of CatchTakesScreenshot: the outer catch captures whatever is configured
CatchTakesScreenshot_Always(opts) == TRUE

\* mutant of CatchTakesScreenshot: the outer catch captures nothing
CatchTakesScreenshot_Never(opts) == FALSE

\* line 463: the outer catch captures a screenshot if configured
CatchTakesScreenshot(opts) == opts.screenshotOnFailure

\* lines 479-487: the returned ExecutionResult
Result ==
    [passed |-> passed, steps |-> stepResults, error |-> error,
     screenshot_url |-> screenshotUrl, retries |-> retries]

\* lines 458-474: the outer catch: mark failed, then the best-effort capture
Catch(msg) ==
    /\ passed' = FALSE
    /\ error' = msg
    /\ caught' = msg
    /\ spc' = IF CatchTakesScreenshot(options) THEN "catchScreenshot" ELSE "finally"

\* the locals of lines 334-346, and an empty history
StoryStart ==
    /\ context = "none"
    /\ spc = "getBrowser"
    /\ i = 0 /\ attempts = 0 /\ lastError = Undefined /\ stepResult = NoStepResult
    /\ stepResults = <<>> /\ passed = TRUE /\ error = Undefined
    /\ screenshotUrl = Undefined /\ retries = 0 /\ vi = 0
    /\ log = <<>> /\ lastCall = NoStepResult /\ authResult = Undefined
    /\ baseGotos = 0
    /\ screenshots = 0 /\ uploads = 0 /\ verified = 0 /\ verifyLog = <<>>
    /\ caught = Undefined /\ thrown = Undefined

\* ----------------------------------------------------- executeStory: steps
\* lines 49-56, 328: getBrowser launches the browser on first use
GetBrowser ==
    /\ spc = "getBrowser"
    /\ \/ /\ browser' = "launched"
          /\ spc' = "newContext"
          /\ thrown' = thrown
       \/ /\ browser = "null"
          /\ browser' = browser
          /\ spc' = "thrown"
          /\ thrown' = "launch failed"
    /\ UNCHANGED <<inputVars, context, localVars, log, lastCall, authResult, baseGotos,
                   screenshots, uploads, verified, verifyLog, caught, runVars>>

\* line 329: browser.newContext
NewContext ==
    /\ spc = "newContext"
    /\ \/ /\ context' = "open"
          /\ spc' = "newPage"
          /\ thrown' = thrown
       \/ /\ context' = context
          /\ spc' = "thrown"
          /\ thrown' = "newContext failed"
    /\ UNCHANGED <<inputVars, browser, localVars, log, lastCall, authResult, baseGotos,
                   screenshots, uploads, verified, verifyLog, caught, runVars>>

\* lines 332-346: context.newPage, outside the try block, then the locals
NewPage ==
    /\ spc = "newPage"
    /\ \/ /\ spc' = "prelude"
          /\ thrown' = thrown
       \/ /\ spc' = "thrown"
          /\ thrown' = "newPage failed"
    /\ UNCHANGED <<inputVars, browser, context, localVars, log, lastCall,
                   authResult, baseGotos, screenshots, uploads, verified, verifyLog, caught, runVars>>

\* lines 90-128: authenticateUser: every rejection of its try block is caught
\* and returned as { success: false, error: "Authentication failed: ..." }
AuthenticateUserResults ==
    {"success"} \cup {"Authentication failed: " \o s : s \in AuthStages}

\* lines 350-359: the login prelude
Authenticate ==
    /\ spc = "prelude"
    /\ ShouldAuthenticate(options)
    /\ \E res \in AuthenticateUserResults :
          /\ authResult' = res
          /\ IF AuthFailureThrows(res)
             THEN Catch(res)
             ELSE /\ spc' = "for"
                  /\ UNCHANGED <<passed, error, caught>>
    /\ UNCHANGED <<inputVars, browser, context, i, attempts, lastError, stepResult,
                   stepResults, screenshotUrl, retries, vi, log, lastCall, baseGotos,
                   screenshots, uploads, verified, verifyLog, thrown, runVars>>

\* lines 360-363: without login, page.goto(baseUrl)
NavigateBase ==
    /\ spc = "prelude"
    /\ ~ShouldAuthenticate(options)
    /\ baseGotos' = baseGotos + 1
    /\ \/ /\ spc' = "for"
          /\ UNCHANGED <<passed, error, caught>>
       \/ Catch("goto failed")
    /\ UNCHANGED <<inputVars, browser, context, i, attempts, lastError, stepResult,
                   stepResults, screenshotUrl, retries, vi, log, lastCall,
                   authResult, screenshots, uploads, verified, verifyLog, thrown, runVars>>

\* lines 366-372: the head of the for loop over story.steps
ForStep ==
    /\ spc = "for"
    /\ IF i < story.nsteps
       THEN /\ attempts' = 0
            /\ lastError' = Undefined
            /\ stepResult' = NoStepResult
            /\ spc' = "while"
       ELSE /\ spc' = "afterSteps"
            /\ UNCHANGED <<attempts, lastError, stepResult>>
    /\ UNCHANGED <<inputVars, browser, context, i, stepResults, passed, error,
                   screenshotUrl, retries, vi, historyVars, runVars>>

\* lines 199-321: executeStep returns a StepResult and never throws
ExecuteStepResults(stepIndex) ==
    {[step |-> stepIndex, passed |-> TRUE, error |-> Undefined]}
    \cup {[step |-> stepIndex, passed |-> FALSE, error |-> e] : e \in StepErrors}

\* lines 374-389: one iteration of the retry loop
Attempt ==
    /\ spc = "while"
    /\ LoopCondition(attempts, options.retryCount)
    /\ \E res \in ExecuteStepResults(i) :
          /\ stepResult' = res
          /\ lastCall' = res
          /\ log' = Append(log, [step |-> i, passed |-> res.passed])
          /\ IF BreakOnPass(res)
             THEN /\ spc' = "push"
                  /\ UNCHANGED <<lastError, attempts, retries>>
             ELSE /\ lastError' = res.error
                  /\ attempts' = attempts + 1
                  /\ retries' = CountRetry(retries, attempts + 1, options.retryCount)
                  /\ spc' = IF WaitBeforeRetry(attempts + 1, options.retryCount)
                            THEN "retryWait" ELSE "while"
    /\ UNCHANGED <<inputVars, browser, context, i, stepResults, passed, error,
                   screenshotUrl, vi, authResult, baseGotos, screenshots, uploads, verified, verifyLog,
                   caught, thrown, runVars>>

\* line 387: page.waitForTimeout(1000) between attempts
RetryWait ==
    /\ spc = "retryWait"
    /\ \/ /\ spc' = "while"
          /\ UNCHANGED <<passed, error, caught>>
       \/ Catch("waitForTimeout failed")
    /\ UNCHANGED <<inputVars, browser, context, i, attempts, lastError, stepResult,
                   stepResults, screenshotUrl, retries, vi, log, lastCall,
                   authResult, baseGotos, screenshots, uploads, verified, verifyLog, thrown, runVars>>

\* line 374 false: the retries are used up
LoopExhausted ==
    /\ spc = "while"
    /\ ~LoopCondition(attempts, options.retryCount)
    /\ spc' = "push"
    /\ UNCHANGED <<inputVars, browser, context, localVars, historyVars, runVars>>

\* lines 391-409: keep the last attempt's result; fail fast on a failed step
PushResult ==
    /\ spc = "push"
    /\ stepResults' = Append(stepResults, stepResult)
    /\ IF StepFailed(stepResult)
       THEN /\ passed' = FALSE
            /\ error' = lastError
            /\ i' = i
            /\ spc' = IF options.screenshotOnFailure THEN "stepScreenshot"
                      ELSE "afterSteps"
       ELSE /\ i' = i + 1
            /\ spc' = "for"
            /\ UNCHANGED <<passed, error>>
    /\ UNCHANGED <<inputVars, browser, context, attempts, lastError, stepResult,
                   screenshotUrl, retries, vi, historyVars, runVars>>

\* lines 68-73: how the storage upload ends: stored, resolved with an error,
\* or rejected
UploadOutcomes == {"stored", "error", "rejected"}

\* mutant of UploadScreenshot: a rejected upload is thrown on to the caller
UploadScreenshot_Rethrows(outcome) ==
    [threw |-> outcome = "rejected",
     url |-> IF outcome = "stored" THEN "https://screenshots/story.png" ELSE Undefined]

\* lines 58-88: uploadScreenshot returns the public URL, or null after an
\* error (lines 75-78) or a rejection (lines 84-87): it never throws;
\* `|| undefined` at the call turns null into undefined
UploadScreenshot(outcome) ==
    [threw |-> FALSE,
     url |-> IF outcome = "stored" THEN "https://screenshots/story.png" ELSE Undefined]

\* lines 398-407: the capture after a failed step
StepScreenshot ==
    /\ spc = "stepScreenshot"
    /\ screenshots' = screenshots + 1
    /\ \/ \E outcome \in UploadOutcomes :
             LET upload == UploadScreenshot(outcome)
             IN  /\ uploads' = uploads + 1
                 /\ IF upload.threw
                    THEN /\ Catch("upload failed")
                         /\ UNCHANGED screenshotUrl
                    ELSE /\ screenshotUrl' = upload.url
                         /\ spc' = "afterSteps"
                         /\ UNCHANGED <<passed, error, caught>>
       \/ /\ Catch("screenshot failed")
          /\ UNCHANGED <<screenshotUrl, uploads>>
    /\ UNCHANGED <<inputVars, browser, context, i, attempts, lastError, stepResult,
                   stepResults, retries, vi, log, lastCall, authResult, baseGotos, verified, verifyLog,
                   thrown, runVars>>

\* line 412: if (passed && story.outcome?.verifications)
AfterSteps ==
    /\ spc = "afterSteps"
    /\ spc' = IF passed THEN "verify" ELSE "finally"
    /\ UNCHANGED <<inputVars, browser, context, localVars, historyVars, runVars>>

\* mutant of VerificationOutcomes: a type the code does not know fails
VerificationOutcomes_UnknownFails(type) ==
    CASE type = "url" -> {"", "url mismatch"}
      [] type = "element" -> {"", "element not visible", "isVisible failed"}
      [] type = "content" -> {"", "content not found"}
      [] OTHER -> {"unknown verification type"}

\* lines 415-443: what one verification can set: "" when it passes
VerificationOutcomes(type) ==
    CASE type = "url" -> {"", "url mismatch"}
      [] type = "element" -> {"", "element not visible", "isVisible failed"}
      [] type = "content" -> {"", "content not found"}
      [] OTHER -> {""}

\* mutant of BreakOnFailedVerification: the loop goes on after a failure
BreakOnFailedVerification_Never(p) == FALSE

\* line 445: if (!passed) break
BreakOnFailedVerification(p) == ~p

\* lines 413-446: the next verification of the outcome, while passed holds
Verify ==
    /\ spc = "verify"
    /\ ~BreakOnFailedVerification(passed)
    /\ vi < Len(story.verifications)
    /\ \E out \in VerificationOutcomes(story.verifications[vi + 1]) :
          /\ verified' = verified + 1
          /\ verifyLog' = Append(verifyLog,
                 [index |-> vi + 1, type |-> story.verifications[vi + 1],
                  error |-> out])
          /\ vi' = vi + 1
          /\ IF out = ""
             THEN UNCHANGED <<passed, error>>
             ELSE /\ passed' = FALSE
                  /\ error' = out
    /\ UNCHANGED <<inputVars, browser, context, spc, i, attempts, lastError,
                   stepResult, stepResults, screenshotUrl, retries, log, lastCall,
                   authResult, baseGotos, screenshots, uploads, caught, thrown, runVars>>

\* lines 445-457: the loop over the verifications ends (all evaluated, or the
\* break after a failed one), then the capture of a verification failure
VerifyEnd ==
    /\ spc = "verify"
    /\ BreakOnFailedVerification(passed) \/ vi >= Len(story.verifications)
    /\ spc' = IF ~passed /\ options.screenshotOnFailure /\ screenshotUrl = Undefined
              THEN "verifyScreenshot" ELSE "finally"
    /\ UNCHANGED <<inputVars, browser, context, localVars, historyVars, runVars>>

\* lines 449-456: the capture after a failed verification
VerifyScreenshot ==
    /\ spc = "verifyScreenshot"
    /\ screenshots' = screenshots + 1
    /\ \/ \E outcome \in UploadOutcomes :
             LET upload == UploadScreenshot(outcome)
             IN  /\ uploads' = uploads + 1
                 /\ IF upload.threw
                    THEN /\ Catch("upload failed")
                         /\ UNCHANGED screenshotUrl
                    ELSE /\ screenshotUrl' = upload.url
                         /\ spc' = "finally"
                         /\ UNCHANGED <<passed, error, caught>>
       \/ /\ Catch("screenshot failed")
          /\ UNCHANGED <<screenshotUrl, uploads>>
    /\ UNCHANGED <<inputVars, browser, context, i, attempts, lastError, stepResult,
                   stepResults, retries, vi, log, lastCall, authResult, baseGotos, verified, verifyLog,
                   thrown, runVars>>

\* lines 463-473: the capture of the outer catch; its own errors are ignored
CatchScreenshot ==
    /\ spc = "catchScreenshot"
    /\ screenshots' = screenshots + 1
    /\ \/ \E outcome \in UploadOutcomes :
             LET upload == UploadScreenshot(outcome)
             IN  /\ uploads' = uploads + 1
                 /\ screenshotUrl' = IF upload.threw THEN screenshotUrl ELSE upload.url
       \/ UNCHANGED <<screenshotUrl, uploads>>
    /\ spc' = "finally"
    /\ UNCHANGED <<inputVars, browser, context, i, attempts, lastError, stepResult,
                   stepResults, passed, error, retries, vi, log, lastCall,
                   authResult, baseGotos, verified, verifyLog, caught, thrown, runVars>>

\* lines 475-488: finally { await context.close() }, then the return
Finally ==
    /\ spc = "finally"
    /\ \/ /\ context' = "closed"
          /\ spc' = "returned"
          /\ thrown' = thrown
       \/ /\ context' = context
          /\ spc' = "thrown"
          /\ thrown' = "close failed"
    /\ UNCHANGED <<inputVars, browser, localVars, log, lastCall, authResult, baseGotos,
                   screenshots, uploads, verified, verifyLog, caught, runVars>>

StoryNext ==
    \/ GetBrowser \/ NewContext \/ NewPage
    \/ Authenticate \/ NavigateBase
    \/ ForStep \/ Attempt \/ RetryWait \/ LoopExhausted \/ PushResult
    \/ StepScreenshot \/ AfterSteps \/ Verify \/ VerifyEnd \/ VerifyScreenshot
    \/ CatchScreenshot \/ Finally

\* --------------------------------------------------- executeTestRun: inputs
\* the roles a story can require; Undefined for a story without required_role
Roles == {"admin", "member"}

RunStories == SeqsUpTo([required_role : Roles \cup {Undefined}], MaxStories)

\* environment.auth_config.type, Undefined for an absent auth_config
Environments == [auth_config : AuthConfigTypes \cup {Undefined}]

\* mutant of SkipReason: the environment's auth type is not looked at
SkipReason_CredentialsOnly(requiredRole, authConfig, creds) ==
    IF requiredRole = Undefined THEN Undefined
    ELSE IF requiredRole \in creds THEN Undefined
    ELSE "Missing test user for required role: " \o requiredRole

\* lines 207-217: the reason to skip a story, Undefined to run it
SkipReason(requiredRole, authConfig, creds) ==
    IF requiredRole = Undefined THEN Undefined
    ELSE IF authConfig = Undefined \/ authConfig # "form"
         THEN "Story requires role " \o requiredRole
              \o " but environment auth is not configured for form login"
    ELSE IF requiredRole \in creds THEN Undefined
    ELSE "Missing test user for required role: " \o requiredRole

\* mutant of Credentials: a story without a role gets some role's credentials
Credentials_WithoutRole(requiredRole, authConfig, creds) ==
    /\ ~(authConfig = Undefined \/ authConfig # "form")
    /\ (requiredRole = Undefined /\ creds # {}) \/ requiredRole \in creds

\* lines 203-216: credentials is set only for a required role found in the map
Credentials(requiredRole, authConfig, creds) ==
    /\ requiredRole # Undefined
    /\ ~(authConfig = Undefined \/ authConfig # "form")
    /\ requiredRole \in creds

\* mutant of InsertResult: only the results that did not pass are saved
InsertResult_FailuresOnly(rows, row) == IF row.passed THEN rows ELSE Append(rows, row)

\* lines 222-231, 267-280, 311-320: supabase.from("test_results").insert(row)
InsertResult(rows, row) == Append(rows, row)

\* mutant of CountSkipped: a skipped story is counted as failed too
CountSkipped_AsFailed(c) == [c EXCEPT !.skipped = @ + 1, !.failed = @ + 1]

\* line 243: skipped++
CountSkipped(c) == [c EXCEPT !.skipped = @ + 1]

\* mutant of CountResult: the result of a story that ended after the run was
\* cancelled is not counted
CountResult_NotWhenCancelled(c, res) ==
    IF testRun.status = "cancelled" THEN c
    ELSE IF res.passed THEN [c EXCEPT !.passed = @ + 1]
    ELSE [c EXCEPT !.failed = @ + 1]

\* mutant of CountResult: the counters hold the latest story's outcome only
CountResult_PerStory(c, res) ==
    [passed |-> IF res.passed THEN 1 ELSE 0,
     failed |-> IF res.passed THEN 0 ELSE 1,
     skipped |-> 0]

\* lines 291-295: passed++ or failed++
CountResult(c, res) ==
    IF res.passed THEN [c EXCEPT !.passed = @ + 1] ELSE [c EXCEPT !.failed = @ + 1]

\* mutant of CountException: the story that threw is not counted
CountException_Nothing(c) == c

\* line 307: failed++
CountException(c) == [c EXCEPT !.failed = @ + 1]

\* lines 259-264: the fixed policy of the executeStory call
RunOptions(requiredRole, authConfig, creds) ==
    [retryCount |-> 3,
     screenshotOnFailure |-> TRUE,
     credentials |-> Credentials(requiredRole, authConfig, creds),
     authConfig |-> authConfig]

\* lines 323-488: what executeStory can return to the orchestrator
ExecuteStoryResults(opts) ==
    {[passed |-> TRUE, error |-> Undefined]}
    \cup {[passed |-> FALSE, error |-> e] : e \in {"locator timeout", "url mismatch"}}
    \cup (IF ShouldAuthenticate(opts)
          THEN {[passed |-> FALSE, error |-> "Authentication failed: goto"]}
          ELSE {[passed |-> FALSE, error |-> "goto failed"]})

\* lines 328-332, 476: the rejections executeStory lets through
ExecuteStoryExceptions == {"newPage failed", "close failed"}

\* mutant of IsCancelled: the loop head does not look at the status
IsCancelled_Never(run) == FALSE

\* lines 163-170: the row read at the loop head says cancelled

IsCancelled(run) == run.status = "cancelled"

NotCancelled == [rpc |-> Undefined, idx |-> -1]

\* lines 176, 347: current_story_id: null; the stories are numbered from 1
NoStory == 0

Progress(completed, c, current) ==
    [total |-> Len(stories), completed |-> completed, passed |-> c.passed,
     failed |-> c.failed, skipped |-> c.skipped, current |-> current]

RunStart ==
    /\ testRun = [status |-> "pending", stories_total |-> 0, stories_passed |-> 0,
                  stories_failed |-> 0, stories_skipped |-> 0,
                  current_story_id |-> NoStory]
    /\ testResults = <<>>
    /\ lastResult = [k \in 1..Len(stories) |-> Undefined]
    /\ rpc = "start"
    /\ idx = 0
    /\ counts = [passed |-> 0, failed |-> 0, skipped |-> 0]
    /\ callOptions = RunOptions(Undefined, Undefined, {})
    /\ progress = <<>>
    /\ storyCalls = <<>>
    /\ storyOutcomes = <<>>
    /\ cancelledAt = NotCancelled

\* ---------------------------------------------------- executeTestRun: steps
\* lines 126-157: no stories: mark completed and return; else mark running
Start ==
    /\ rpc = "start"
    /\ ui >= Len(testUsers)
    /\ IF Len(stories) = 0
       THEN /\ testRun' = [testRun EXCEPT !.status = "completed",
                                          !.stories_total = 0,
                                          !.stories_passed = 0,
                                          !.stories_failed = 0,
                                          !.stories_skipped = 0]
            /\ rpc' = "done"
       ELSE /\ testRun' = [testRun EXCEPT !.status = "running",
                                          !.stories_total = Len(stories)]
            /\ rpc' = "boundary"
    /\ UNCHANGED <<storyVars, stories, environment, credentialsMap, testResults,
                   lastResult, idx, counts, callOptions, progress, storyCalls,
                   storyOutcomes, cancelledAt>>

\* lines 159-199: the loop head: the cancellation check, then onProgress and
\* the current-story markers
Boundary ==
    /\ rpc = "boundary"
    /\ idx < Len(stories)
    /\ IF IsCancelled(testRun)
       THEN /\ testRun' = [testRun EXCEPT !.current_story_id = NoStory]
            /\ rpc' = "done"
            /\ UNCHANGED progress
       ELSE /\ progress' = Append(progress, Progress(idx, counts, idx + 1))
            /\ testRun' = [testRun EXCEPT !.current_story_id = idx + 1]
            /\ rpc' = "gate"
    /\ UNCHANGED <<storyVars, stories, environment, credentialsMap, testResults,
                   lastResult, idx, counts, callOptions, storyCalls, storyOutcomes,
                   cancelledAt>>

\* lines 219-257: the story is skipped
SkipStory ==
    /\ rpc = "gate"
    /\ LET reason == SkipReason(stories[idx + 1].required_role,
                                environment.auth_config, credentialsMap)
       IN  /\ reason # Undefined
           /\ testResults' = InsertResult(testResults,
                  [story_id |-> idx + 1, passed |-> FALSE, error |-> reason])
    /\ lastResult' = [lastResult EXCEPT ![idx + 1] = "skipped"]
    /\ counts' = CountSkipped(counts)
    /\ testRun' = [testRun EXCEPT !.stories_passed = counts'.passed,
                                  !.stories_failed = counts'.failed,
                                  !.stories_skipped = counts'.skipped]
    /\ idx' = idx + 1
    /\ rpc' = "boundary"
    /\ UNCHANGED <<storyVars, stories, environment, credentialsMap, callOptions,
                   progress, storyCalls, storyOutcomes, cancelledAt>>

\* lines 259-264: the story is handed to executeStory
CallExecuteStory ==
    /\ rpc = "gate"
    /\ SkipReason(stories[idx + 1].required_role, environment.auth_config,
                  credentialsMap) = Undefined
    /\ callOptions' = RunOptions(stories[idx + 1].required_role,
                                 environment.auth_config, credentialsMap)
    /\ storyCalls' = Append(storyCalls, [story |-> idx + 1, options |-> callOptions'])
    /\ rpc' = "executeStory"
    /\ UNCHANGED <<storyVars, stories, environment, credentialsMap, testRun,
                   testResults, lastResult, idx, counts, progress, storyOutcomes,
                   cancelledAt>>

\* lines 266-305: executeStory returned: save the result, count it, persist
StoryReturned ==
    /\ rpc = "executeStory"
    /\ \E res \in ExecuteStoryResults(callOptions) :
          /\ testResults' = InsertResult(testResults,
                 [story_id |-> idx + 1, passed |-> res.passed, error |-> res.error])
          /\ lastResult' = [lastResult EXCEPT
                 ![idx + 1] = IF res.passed THEN "passed" ELSE "failed"]
          /\ counts' = CountResult(counts, res)
          /\ storyOutcomes' = Append(storyOutcomes,
                 [story |-> idx + 1, threw |-> FALSE, passed |-> res.passed,
                  error |-> res.error])
    /\ testRun' = [testRun EXCEPT !.stories_passed = counts'.passed,
                                  !.stories_failed = counts'.failed,
                                  !.stories_skipped = counts'.skipped]
    /\ idx' = idx + 1
    /\ rpc' = "boundary"
    /\ UNCHANGED <<storyVars, stories, environment, credentialsMap, callOptions,
                   progress, storyCalls, cancelledAt>>

\* lines 306-330: executeStory threw: count the story failed, save the error
StoryThrew ==
    /\ rpc = "executeStory"
    /\ \E msg \in ExecuteStoryExceptions :
          /\ testResults' = InsertResult(testResults,
                 [story_id |-> idx + 1, passed |-> FALSE, error |-> msg])
          /\ storyOutcomes' = Append(storyOutcomes,
                 [story |-> idx + 1, threw |-> TRUE, passed |-> FALSE,
                  error |-> msg])
    /\ counts' = CountException(counts)
    /\ lastResult' = [lastResult EXCEPT ![idx + 1] = "failed"]
    /\ idx' = idx + 1
    /\ rpc' = "boundary"
    /\ UNCHANGED <<storyVars, stories, environment, credentialsMap, testRun,
                   callOptions, progress, storyCalls, cancelledAt>>

\* the rejection of a call on the persistence collaborator
PersistenceExceptions == {"fetch failed"}

\* lines 219-254, 306-330: the story is skipped and counted, then the update
\* of the run row (lines 247-254) rejects: the catch counts the story failed
\* and saves an error result
SkipStoryThrows ==
    /\ rpc = "gate"
    /\ \E msg \in PersistenceExceptions :
          LET reason == SkipReason(stories[idx + 1].required_role,
                                   environment.auth_config, credentialsMap)
          IN  /\ reason # Undefined
              /\ testResults' = testResults
                     \o <<[story_id |-> idx + 1, passed |-> FALSE, error |-> reason],
                          [story_id |-> idx + 1, passed |-> FALSE, error |-> msg]>>
              /\ storyOutcomes' = Append(storyOutcomes,
                     [story |-> idx + 1, threw |-> TRUE, passed |-> FALSE,
                      error |-> msg])
    /\ counts' = CountException(CountSkipped(counts))
    /\ lastResult' = [lastResult EXCEPT ![idx + 1] = "failed"]
    /\ idx' = idx + 1
    /\ rpc' = "boundary"
    /\ UNCHANGED <<storyVars, stories, environment, credentialsMap, testRun,
                   callOptions, progress, storyCalls, cancelledAt>>

\* lines 266-280, 306-330: executeStory returned and the insert of the result
\* (lines 267-280) rejects: the catch counts the story failed and saves an
\* error result
SaveResultThrows ==
    /\ rpc = "executeStory"
    /\ \E res \in ExecuteStoryResults(callOptions), msg \in PersistenceExceptions :
          /\ testResults' = InsertResult(testResults,
                 [story_id |-> idx + 1, passed |-> FALSE, error |-> msg])
          /\ storyOutcomes' = Append(storyOutcomes,
                 [story |-> idx + 1, threw |-> TRUE, passed |-> FALSE,
                  error |-> msg])
    /\ counts' = CountException(counts)
    /\ lastResult' = [lastResult EXCEPT ![idx + 1] = "failed"]
    /\ idx' = idx + 1
    /\ rpc' = "boundary"
    /\ UNCHANGED <<storyVars, stories, environment, credentialsMap, testRun,
                   callOptions, progress, storyCalls, cancelledAt>>

\* lines 266-330: executeStory returned, the result is saved and counted, then
\* the update of the run row (lines 298-305) rejects: the catch counts the
\* story failed and saves an error result
StoryReturnedThrows ==
    /\ rpc = "executeStory"
    /\ \E res \in ExecuteStoryResults(callOptions), msg \in PersistenceExceptions :
          /\ testResults' = testResults
                 \o <<[story_id |-> idx + 1, passed |-> res.passed, error |-> res.error],
                      [story_id |-> idx + 1, passed |-> FALSE, error |-> msg]>>
          /\ counts' = CountException(CountResult(counts, res))
          /\ storyOutcomes' = Append(storyOutcomes,
                 [story |-> idx + 1, threw |-> TRUE, passed |-> FALSE,
                  error |-> msg])
    /\ lastResult' = [lastResult EXCEPT ![idx + 1] = "failed"]
    /\ idx' = idx + 1
    /\ rpc' = "boundary"
    /\ UNCHANGED <<storyVars, stories, environment, credentialsMap, testRun,
                   callOptions, progress, storyCalls, cancelledAt>>

\* mutant of MarkCompleted: the current-story marker is left as it was
MarkCompleted_KeepsMarker(run, c) ==
    [run EXCEPT !.status = "completed",
                !.stories_passed = c.passed,
                !.stories_failed = c.failed,
                !.stories_skipped = c.skipped]

\* lines 337-349: the update that marks the run completed
MarkCompleted(run, c) ==
    [run EXCEPT !.status = "completed",
                !.stories_passed = c.passed,
                !.stories_failed = c.failed,
                !.stories_skipped = c.skipped,
                !.current_story_id = NoStory]

\* lines 333-358: after the last story: mark completed, final onProgress
Complete ==
    /\ rpc = "boundary"
    /\ idx >= Len(stories)
    /\ testRun' = MarkCompleted(testRun, counts)
    /\ progress' = Append(progress, Progress(Len(stories), counts, Undefined))
    /\ rpc' = "done"
    /\ UNCHANGED <<storyVars, stories, environment, credentialsMap, testResults,
                   lastResult, idx, counts, callOptions, storyCalls, storyOutcomes,
                   cancelledAt>>

\* the outside actor: the run is marked cancelled while pending or running
Cancel ==
    /\ testRun.status \in {"pending", "running"}
    /\ testRun' = [testRun EXCEPT !.status = "cancelled"]
    /\ cancelledAt' = [rpc |-> rpc, idx |-> idx]
    /\ UNCHANGED <<storyVars, stories, environment, credentialsMap, testResults,
                   lastResult, rpc, idx, counts, callOptions, progress, storyCalls,
                   storyOutcomes>>

\* --------------------------------------------- executeStory: url verification
\* the characters of the URLs and of the expected substrings
Chars == {"a", "b", "/"}

\* String.prototype.indexOf(sub, k): the first position >= k where sub
\* occurs in s, or -1
RECURSIVE IndexOf(_, _, _)
IndexOf(s, sub, k) ==
    IF k + Len(sub) > Len(s) THEN -1
    ELSE IF SubSeq(s, k + 1, k + Len(sub)) = sub THEN k
    ELSE IndexOf(s, sub, k + 1)

\* mutant of Includes: the URL has to start with the expected text
Includes_StartsWith(s, sub) ==
    Len(sub) <= Len(s) /\ SubSeq(s, 1, Len(sub)) = sub

\* line 417: currentUrl.includes(verification.expected)
Includes(s, sub) == IndexOf(s, sub, 0) # -1

\* line 419: `Expected URL to contain "${expected}", got "${currentUrl}"`
UrlError(exp, url) ==
    <<"Expected URL to contain \"">> \o exp \o <<"\", got \"">> \o url \o <<"\"">>

\* lines 415-420: the url verification, on a page whose URL is currentUrl
VerifyUrl ==
    /\ spc = "verify"
    /\ ~BreakOnFailedVerification(passed)
    /\ vi < Len(story.verifications)
    /\ story.verifications[vi + 1] = "url"
    /\ IF ~Includes(currentUrl, expected)
       THEN /\ passed' = FALSE
            /\ error' = UrlError(expected, currentUrl)
       ELSE UNCHANGED <<passed, error>>
    /\ verified' = verified + 1
    /\ verifyLog' = Append(verifyLog,
           [index |-> vi + 1, type |-> "url", error |-> IF passed' THEN "" ELSE error'])
    /\ vi' = vi + 1
    /\ UNCHANGED <<inputVars, browser, context, spc, i, attempts, lastError,
                   stepResult, stepResults, screenshotUrl, retries, log, lastCall,
                   authResult, baseGotos, screenshots, uploads, caught, thrown, runVars>>

\* ------------------------------------------------------------------- text
\* a text is a sequence of one-character strings
UpperToLower ==
    ("A" :> "a") @@ ("B" :> "b") @@ ("C" :> "c") @@ ("D" :> "d") @@ ("E" :> "e") @@
    ("F" :> "f") @@ ("G" :> "g") @@ ("H" :> "h") @@ ("I" :> "i") @@ ("J" :> "j") @@
    ("K" :> "k") @@ ("L" :> "l") @@ ("M" :> "m") @@ ("N" :> "n") @@ ("O" :> "o") @@
    ("P" :> "p") @@ ("Q" :> "q") @@ ("R" :> "r") @@ ("S" :> "s") @@ ("T" :> "t") @@
    ("U" :> "u") @@ ("V" :> "v") @@ ("W" :> "w") @@ ("X" :> "x") @@ ("Y" :> "y") @@
    ("Z" :> "z")

\* String.prototype.toLowerCase, on the letters A-Z
ToLowerCase(s) ==
    [k \in 1..Len(s) |-> IF s[k] \in DOMAIN UpperToLower THEN UpperToLower[s[k]]
                         ELSE s[k]]

\* String.prototype.startsWith
StartsWith(s, prefix) ==
    Len(prefix) <= Len(s) /\ SubSeq(s, 1, Len(prefix)) = prefix

\* the words joined by single spaces
RECURSIVE Join(_)
Join(ws) ==
    IF ws = <<>> THEN <<>>
    ELSE IF Len(ws) = 1 THEN ws[1]
    ELSE ws[1] \o <<" ">> \o Join(Tail(ws))

Phrases(words) == {Join(ws) : ws \in SeqsUpTo(words, MaxWords)}

\* ------------------------------------------------------------ executeStep
\* lines 209-295: the keywords of the if / else-if chain
ActionKeywords ==
    [navigate |-> <<"n", "a", "v", "i", "g", "a", "t", "e">>,
     goTo |-> <<"g", "o", " ", "t", "o">>,
     click |-> <<"c", "l", "i", "c", "k">>,
     tap |-> <<"t", "a", "p">>,
     type |-> <<"t", "y", "p", "e">>,
     enter |-> <<"e", "n", "t", "e", "r">>,
     fill |-> <<"f", "i", "l", "l">>,
     select |-> <<"s", "e", "l", "e", "c", "t">>,
     choose |-> <<"c", "h", "o", "o", "s", "e">>,
     check |-> <<"c", "h", "e", "c", "k">>,
     uncheck |-> <<"u", "n", "c", "h", "e", "c", "k">>,
     wait |-> <<"w", "a", "i", "t">>,
     scroll |-> <<"s", "c", "r", "o", "l", "l">>,
     hover |-> <<"h", "o", "v", "e", "r">>,
     press |-> <<"p", "r", "e", "s", "s">>,
     focus |-> <<"f", "o", "c", "u", "s">>]

\* the words of the action labels: the keywords, a capitalised one, and two
\* words that are no keyword
LabelWords ==
    {<<"n", "a", "v", "i", "g", "a", "t", "e">>,
     <<"g", "o", " ", "t", "o">>,
     <<"c", "l", "i", "c", "k">>,
     <<"t", "a", "p">>,
     <<"t", "y", "p", "e">>,
     <<"e", "n", "t", "e", "r">>,
     <<"f", "i", "l", "l">>,
     <<"s", "e", "l", "e", "c", "t">>,
     <<"c", "h", "o", "o", "s", "e">>,
     <<"c", "h", "e", "c", "k">>,
     <<"u", "n", "c", "h", "e", "c", "k">>,
     <<"w", "a", "i", "t">>,
     <<"s", "c", "r", "o", "l", "l">>,
     <<"h", "o", "v", "e", "r">>,
     <<"p", "r", "e", "s", "s">>,
     <<"f", "o", "c", "u", "s">>,
     <<"C", "l", "i", "c", "k">>,
     <<"a", "n", "d">>,
     <<"S", "a", "v", "e">>}

\* a step whose action is not a string (the steps are stored as JSON)
NoAction == <<Undefined>>

\* StoryStep: an action label or none, and the optional selector, element, value
Steps ==
    [action : Phrases(LabelWords) \cup {NoAction},
     selector : {Undefined, "#submit"},
     element : {Undefined, "Submit"},
     value : {Undefined, "hello"}]

\* a || b
Or(a, b) == IF a \notin {Undefined, ""} THEN a ELSE b

\* mutant of ActionBranch: the wait keyword is looked for first
ActionBranch_WaitFirst(lowered) ==
    IF Includes(lowered, ActionKeywords.wait)
       THEN "wait"
    ELSE IF Includes(lowered, ActionKeywords.navigate) \/ Includes(lowered, ActionKeywords.goTo)
       THEN "navigate"
    ELSE IF Includes(lowered, ActionKeywords.click) \/ Includes(lowered, ActionKeywords.tap)
       THEN "click"
    ELSE IF Includes(lowered, ActionKeywords.type) \/ Includes(lowered, ActionKeywords.enter) \/ Includes(lowered, ActionKeywords.fill)
       THEN "type"
    ELSE IF Includes(lowered, ActionKeywords.select) \/ Includes(lowered, ActionKeywords.choose)
       THEN "select"
    ELSE IF Includes(lowered, ActionKeywords.check)
       THEN "check"
    ELSE IF Includes(lowered, ActionKeywords.uncheck)
       THEN "uncheck"
    ELSE IF Includes(lowered, ActionKeywords.scroll)
       THEN "scroll"
    ELSE IF Includes(lowered, ActionKeywords.hover)
       THEN "hover"
    ELSE IF Includes(lowered, ActionKeywords.press)
       THEN "press"
    ELSE IF Includes(lowered, ActionKeywords.focus)
       THEN "focus"
    ELSE "default"

\* lines 210-297: the branch taken for the lower-cased label
ActionBranch(lowered) ==
    IF Includes(lowered, ActionKeywords.navigate) \/ Includes(lowered, ActionKeywords.goTo)
       THEN "navigate"
    ELSE IF Includes(lowered, ActionKeywords.click) \/ Includes(lowered, ActionKeywords.tap)
       THEN "click"
    ELSE IF Includes(lowered, ActionKeywords.type) \/ Includes(lowered, ActionKeywords.enter) \/ Includes(lowered, ActionKeywords.fill)
       THEN "type"
    ELSE IF Includes(lowered, ActionKeywords.select) \/ Includes(lowered, ActionKeywords.choose)
       THEN "select"
    ELSE IF Includes(lowered, ActionKeywords.check)
       THEN "check"
    ELSE IF Includes(lowered, ActionKeywords.uncheck)
       THEN "uncheck"
    ELSE IF Includes(lowered, ActionKeywords.wait)
       THEN "wait"
    ELSE IF Includes(lowered, ActionKeywords.scroll)
       THEN "scroll"
    ELSE IF Includes(lowered, ActionKeywords.hover)
       THEN "hover"
    ELSE IF Includes(lowered, ActionKeywords.press)
       THEN "press"
    ELSE IF Includes(lowered, ActionKeywords.focus)
       THEN "focus"
    ELSE "default"

\* the characters of the texts a step's value takes
ValueChars ==
    ("hello" :> <<"h", "e", "l", "l", "o">>)
    @@ ("1000" :> <<"1", "0", "0", "0">>)
    @@ ("250" :> <<"2", "5", "0">>)
    @@ ("0" :> <<"0">>)
    @@ ("007" :> <<"0", "0", "7">>)
    @@ (" 42" :> <<" ", "4", "2">>)
    @@ ("-5" :> <<"-", "5">>)
    @@ ("+3" :> <<"+", "3">>)
    @@ ("1.5" :> <<"1", ".", "5">>)
    @@ ("12abc" :> <<"1", "2", "a", "b", "c">>)
    @@ ("abc" :> <<"a", "b", "c">>)
    @@ ("-" :> <<"-">>)
    @@ (" " :> <<" ">>)

DigitValue ==
    ("0" :> 0) @@ ("1" :> 1) @@ ("2" :> 2) @@ ("3" :> 3) @@ ("4" :> 4)
    @@ ("5" :> 5) @@ ("6" :> 6) @@ ("7" :> 7) @@ ("8" :> 8) @@ ("9" :> 9)

IsDigit(ch) == ch \in DOMAIN DigitValue

RECURSIVE TrimStart(_)
TrimStart(chars) ==
    IF chars # <<>> /\ chars[1] = " " THEN TrimStart(Tail(chars)) ELSE chars

\* the value of the digits at the start of chars, read after the digits of n
RECURSIVE LeadingDigits(_, _)
LeadingDigits(chars, n) ==
    IF chars # <<>> /\ IsDigit(chars[1])
    THEN LeadingDigits(Tail(chars), 10 * n + DigitValue[chars[1]])
    ELSE n

NaN == [nan |-> TRUE, n |-> 0]

\* line 262: parseInt(text, 10): leading white space is skipped, a sign is
\* read, then the digits up to the first other character; NaN without a digit
ParseInt(chars) ==
    LET trimmed == TrimStart(chars)
        signed == trimmed # <<>> /\ trimmed[1] \in {"-", "+"}
        digits == IF signed THEN Tail(trimmed) ELSE trimmed
    IN  IF digits = <<>> \/ ~IsDigit(digits[1]) THEN NaN
        ELSE [nan |-> FALSE,
              n |-> IF signed /\ trimmed[1] = "-" THEN 0 - LeadingDigits(digits, 0)
                    ELSE LeadingDigits(digits, 0)]

\* line 262: const timeout = parseInt(step.value || "1000", 10), as the
\* number page.waitForTimeout is given
WaitTimeout(value) ==
    LET parsed == ParseInt(ValueChars[Or(value, "1000")])
    IN  IF parsed.nan THEN "NaN" ELSE ToString(parsed.n)

\* the wait steps: a wait label and every value
WaitLabels ==
    {ActionKeywords.wait, <<"W", "a", "i", "t">>,
     Join(<<ActionKeywords.wait, <<"a", "n", "d">>, ActionKeywords.scroll>>)}

WaitSteps ==
    [action : WaitLabels,
     selector : {Undefined, "#submit"},
     element : {Undefined},
     value : {Undefined, ""} \cup DOMAIN ValueChars]

\* mutant of WithElement: the element is looked for without a target too
WithElement_Always(t, op, arg) ==
    <<[op |-> "findElement", arg |-> t], [op |-> op, arg |-> arg]>>

\* lines 218-222: if (target) { findElement(page, target), then the call }
WithElement(t, op, arg) ==
    IF t = Undefined THEN <<>>
    ELSE <<[op |-> "findElement", arg |-> t], [op |-> op, arg |-> arg]>>

\* lines 210-304: the calls the branch makes on the page, then the pause of
\* line 304
PageCalls(b, st) ==
    LET t == Or(st.selector, st.element)
    IN  (CASE b = "navigate" ->
                 IF Or(st.value, st.element) = Undefined THEN <<>>
                 ELSE <<[op |-> "goto", arg |-> Or(st.value, st.element)]>>
           [] b = "click" -> WithElement(t, "click", Undefined)
           [] b = "type" -> WithElement(t, "fill", Or(st.value, ""))
           [] b = "select" -> WithElement(t, "selectOption", Or(st.value, ""))
           [] b = "check" -> WithElement(t, "check", Undefined)
           [] b = "uncheck" -> WithElement(t, "uncheck", Undefined)
           [] b = "wait" -> <<[op |-> "waitForTimeout", arg |-> WaitTimeout(st.value)]>>
           [] b = "scroll" ->
                 IF t = Undefined THEN <<[op |-> "evaluate", arg |-> "scrollBy(0, 300)"]>>
                 ELSE WithElement(t, "scrollIntoViewIfNeeded", Undefined)
           [] b = "hover" -> WithElement(t, "hover", Undefined)
           [] b = "press" -> <<[op |-> "keyboard.press", arg |-> Or(st.value, "Enter")]>>
           [] b = "focus" -> WithElement(t, "focus", Undefined)
           [] OTHER -> WithElement(t, "click", Undefined))
        \o <<[op |-> "waitForTimeout", arg |-> "100"]>>

\* lines 306-311: the StepResult of a try block that ran to its end
StepPassed(stepIndex) == [step |-> stepIndex, passed |-> TRUE, error |-> Undefined]

\* mutant of StepFailure: the message of the exception is dropped
StepFailure_NoError(stepIndex, msg) ==
    [step |-> stepIndex, passed |-> FALSE, error |-> Undefined]

\* lines 312-319: the StepResult of the catch
StepFailure(stepIndex, msg) == [step |-> stepIndex, passed |-> FALSE, error |-> msg]

StepIdle ==
    /\ step = [action |-> NoAction, selector |-> Undefined, element |-> Undefined,
               value |-> Undefined]
    /\ epc = "idle"
    /\ action = <<>>
    /\ branch = Undefined
    /\ pwCalls = <<>>
    /\ raised = Undefined
    /\ stepReturn = NoStepResult

\* lines 206-297: step.action.toLowerCase(), then the chain picks a branch
Classify ==
    /\ epc = "start"
    /\ IF step.action = NoAction
       THEN /\ raised' = "Cannot read properties of undefined"
            /\ epc' = "catch"
            /\ UNCHANGED <<action, branch>>
       ELSE /\ action' = ToLowerCase(step.action)
            /\ branch' = ActionBranch(action')
            /\ epc' = "try"
            /\ UNCHANGED raised
    /\ UNCHANGED <<step, pwCalls, stepReturn, notStepVars>>

\* lines 210-304: the next awaited call of the branch resolves or rejects
PageCall ==
    /\ epc = "try"
    /\ Len(pwCalls) < Len(PageCalls(branch, step))
    /\ pwCalls' = Append(pwCalls, PageCalls(branch, step)[Len(pwCalls) + 1])
    /\ \/ UNCHANGED <<epc, raised>>
       \/ /\ raised' = pwCalls'[Len(pwCalls')].op \o " failed"
          /\ epc' = "catch"
    /\ UNCHANGED <<step, action, branch, stepReturn, notStepVars>>

\* lines 306-311: return { step, action, passed: true, duration_ms }
StepReturns ==
    /\ epc = "try"
    /\ Len(pwCalls) >= Len(PageCalls(branch, step))
    /\ stepReturn' = StepPassed(0)
    /\ epc' = "returned"
    /\ UNCHANGED <<step, action, branch, pwCalls, raised, notStepVars>>

\* lines 312-319: catch (error): return { ..., passed: false, error }
StepCatches ==
    /\ epc = "catch"
    /\ stepReturn' = StepFailure(0, raised)
    /\ epc' = "returned"
    /\ UNCHANGED <<step, action, branch, pwCalls, raised, notStepVars>>

\* ------------------------------------------------------------ findElement
\* the words of the targets: selectors, field names, button texts
TargetWords ==
    {<<"#", "e", "m", "a", "i", "l">>,
     <<".", "b", "t", "n">>,
     <<"[", "n", "a", "m", "e", "]">>,
     <<"a", "=", "b">>,
     <<"E", "m", "a", "i", "l">>,
     <<"P", "a", "s", "s", "w", "o", "r", "d">>,
     <<"u", "s", "e", "r", "n", "a", "m", "e">>,
     <<"S", "u", "b", "m", "i", "t">>,
     <<"L", "o", "g", "i", "n">>,
     <<"S", "i", "g", "n">>,
     <<"i", "n">>,
     <<"S", "a", "v", "e">>}

\* executeStep calls findElement with a non-empty target only
Targets == Phrases(TargetWords) \ {<<>>}

\* mutant of CssLike: only the first character is looked at
CssLike_PrefixOnly(t) ==
    StartsWith(t, <<"#">>) \/ StartsWith(t, <<".">>) \/ StartsWith(t, <<"[">>)

\* line 133: the target looks like a CSS selector
CssLike(t) ==
    \/ StartsWith(t, <<"#">>) \/ StartsWith(t, <<".">>) \/ StartsWith(t, <<"[">>)
    \/ Includes(t, <<"=">>)

\* lines 140-151: the semantic strategies, in the order of the array literal
GenericStrategies ==
    <<"getByLabel", "getByPlaceholder", "getByRole(textbox)", "getByRole(button)",
      "getByRole(link)", "getByText">>

\* lines 154-180: the selectors each unshift puts in front of the list
EmailStrategies ==
    <<"input[type=email]", "input[name=email]", "input[name=Email]", "#email">>

PasswordStrategies == <<"input[type=password]", "input[name=password]", "#password">>

UsernameStrategies == <<"input[name=username]", "#username">>

SubmitStrategies == <<"button[type=submit]", "input[type=submit]">>

\* mutant of Strategies: the seeded selectors are pushed behind the list
Strategies_Pushed(t) ==
    LET lower == ToLowerCase(t)
        email == IF Includes(lower, <<"e", "m", "a", "i", "l">>) THEN EmailStrategies ELSE <<>>
        password == IF Includes(lower, <<"p", "a", "s", "s", "w", "o", "r", "d">>) THEN PasswordStrategies ELSE <<>>
        username == IF Includes(lower, <<"u", "s", "e", "r", "n", "a", "m", "e">>) THEN UsernameStrategies ELSE <<>>
        submit == IF \/ Includes(lower, <<"s", "u", "b", "m", "i", "t">>)
                     \/ Includes(lower, <<"l", "o", "g", "i", "n">>)
                     \/ Includes(lower, <<"s", "i", "g", "n", " ", "i", "n">>)
                  THEN SubmitStrategies ELSE <<>>
    IN  GenericStrategies \o email \o password \o username \o submit

\* lines 137-180: the list after the unshifts: each later unshift lands in
\* front of the earlier ones
Strategies(t) ==
    LET lower == ToLowerCase(t)
        email == IF Includes(lower, <<"e", "m", "a", "i", "l">>) THEN EmailStrategies ELSE <<>>
        password == IF Includes(lower, <<"p", "a", "s", "s", "w", "o", "r", "d">>) THEN PasswordStrategies ELSE <<>>
        username == IF Includes(lower, <<"u", "s", "e", "r", "n", "a", "m", "e">>) THEN UsernameStrategies ELSE <<>>
        submit == IF \/ Includes(lower, <<"s", "u", "b", "m", "i", "t">>)
                     \/ Includes(lower, <<"l", "o", "g", "i", "n">>)
                     \/ Includes(lower, <<"s", "i", "g", "n", " ", "i", "n">>)
                  THEN SubmitStrategies ELSE <<>>
    IN  submit \o username \o password \o email \o GenericStrategies

\* what locator.first().isVisible({ timeout: 1000 }).catch(() => false) and
\* the try around it can give for one strategy
VisibleOutcomes == {"visible", "hidden", "throws"}

\* mutant of StrategyWins: an element that is there but hidden is taken
StrategyWins_NotThrown(outcome) == outcome # "throws"

\* line 187: the strategy's first match is visible
StrategyWins(outcome) == outcome = "visible"

NotFound == [by |-> Undefined, locator |-> Undefined]

FindIdle ==
    /\ target = <<>>
    /\ fpc = "idle"
    /\ strategies = <<>>
    /\ si = 0
    /\ tried = <<>>
    /\ visible = Undefined
    /\ found = NotFound

\* lines 131-181: a CSS-like target is returned as page.locator(target); for
\* any other target the list of strategies is built
FindStart ==
    /\ fpc = "start"
    /\ IF CssLike(target)
       THEN /\ found' = [by |-> "css", locator |-> target]
            /\ fpc' = "returned"
            /\ UNCHANGED strategies
       ELSE /\ strategies' = Strategies(target)
            /\ fpc' = "strategies"
            /\ UNCHANGED found
    /\ UNCHANGED <<target, si, tried, visible, notFindVars>>

\* lines 183-193: the next strategy of the list
TryStrategy ==
    /\ fpc = "strategies"
    /\ si < Len(strategies)
    /\ tried' = Append(tried, strategies[si + 1])
    /\ \E outcome \in VisibleOutcomes :
          /\ visible' = outcome
          /\ IF StrategyWins(outcome)
             THEN /\ found' = [by |-> "strategy", locator |-> strategies[si + 1]]
                  /\ fpc' = "returned"
                  /\ UNCHANGED si
             ELSE /\ si' = si + 1
                  /\ UNCHANGED <<found, fpc>>
    /\ UNCHANGED <<target, strategies, notFindVars>>

\* line 196: no strategy gave a visible element: page.locator(target)
Fallback ==
    /\ fpc = "strategies"
    /\ si >= Len(strategies)
    /\ found' = [by |-> "fallback", locator |-> target]
    /\ fpc' = "returned"
    /\ UNCHANGED <<target, strategies, si, tried, visible, notFindVars>>

\* ------------------------------------------- the process: concurrent callers
\* the tasks of the process that call executeStory (one per run in progress)
Callers == 1..MaxCallers

\* the Browser objects chromium.launch() resolves to, in order of creation
Instance(n) == "browser" \o ToString(n)

ProcessIdle ==
    /\ callers = [c \in Callers |-> [pc |-> "idle", made |-> 0, got |-> "null"]]
    /\ launches = 0
    /\ used = {}

\* line 328: a task calls executeStory, which calls getBrowser
EnterExecuteStory(c) ==
    /\ callers[c].pc = "idle"
    /\ callers[c].made < MaxCalls
    /\ callers' = [callers EXCEPT ![c].pc = "getBrowser", ![c].made = @ + 1,
                                  ![c].got = "null"]
    /\ UNCHANGED <<browser, launches, used, callVars>>

\* lines 50, 55: if (!browser) start the launch; else return browser
CheckBrowser(c) ==
    /\ callers[c].pc = "getBrowser"
    /\ IF browser = "null"
       THEN callers' = [callers EXCEPT ![c].pc = "launch"]
       ELSE callers' = [callers EXCEPT ![c].pc = "newContext", ![c].got = browser]
    /\ UNCHANGED <<browser, launches, used, callVars>>

\* lines 51-55: the awaited chromium.launch() settles: the continuation
\* assigns the module-level browser and returns it, or the call throws
LaunchSettles(c) ==
    /\ callers[c].pc = "launch"
    /\ \/ /\ launches' = launches + 1
          /\ browser' = Instance(launches')
          /\ callers' = [callers EXCEPT ![c].pc = "newContext", ![c].got = browser']
       \/ /\ callers' = [callers EXCEPT ![c].pc = "idle"]
          /\ UNCHANGED <<browser, launches>>
    /\ UNCHANGED <<used, callVars>>

\* lines 329-488: the call opens its context on the browser it got and runs
\* to its end
RunOnBrowser(c) ==
    /\ callers[c].pc = "newContext"
    /\ used' = used \cup {callers[c].got}
    /\ callers' = [callers EXCEPT ![c].pc = "idle"]
    /\ UNCHANGED <<browser, launches, callVars>>

\* ------------------------------------------------------ the specifications
\* one url verification: a story of no steps has reached its verifications
UrlInit ==
    /\ ProcessIdle
    /\ FindIdle
    /\ StepIdle
    /\ CryptoIdle
    /\ UsersIdle
    /\ story = [nsteps |-> 0, verifications |-> <<"url">>]
    /\ options \in [retryCount : {0}, screenshotOnFailure : {FALSE},
                     credentials : {FALSE}, authConfig : {Undefined}]
    /\ expected \in SeqsUpTo(Chars, MaxExpectedLen)
    /\ currentUrl \in SeqsUpTo(Chars, MaxUrlLen)
    /\ browser = "launched"
    /\ context = "open"
    /\ spc = "verify"
    /\ i = 0 /\ attempts = 0 /\ lastError = Undefined /\ stepResult = NoStepResult
    /\ stepResults = <<>> /\ passed = TRUE /\ error = Undefined
    /\ screenshotUrl = Undefined /\ retries = 0 /\ vi = 0
    /\ log = <<>> /\ lastCall = NoStepResult /\ authResult = Undefined
    /\ baseGotos = 1
    /\ screenshots = 0 /\ uploads = 0 /\ verified = 0 /\ verifyLog = <<>>
    /\ caught = Undefined /\ thrown = Undefined
    /\ stories = <<>>
    /\ environment = [auth_config |-> Undefined]
    /\ credentialsMap = {}
    /\ RunStart

UrlNext == VerifyUrl \/ VerifyEnd \/ Finally

SpecUrl == UrlInit /\ [][UrlNext]_vars

\* one call of executeStory, with no test run around it
StoryInit ==
    /\ ProcessIdle
    /\ FindIdle
    /\ StepIdle
    /\ CryptoIdle
    /\ UsersIdle
    /\ story \in Stories
    /\ options \in ExecutionOptionsSet
    /\ expected = <<>>
    /\ currentUrl = <<>>
    /\ browser = "null"
    /\ StoryStart
    /\ stories = <<>>
    /\ environment = [auth_config |-> Undefined]
    /\ credentialsMap = {}
    /\ RunStart

SpecStory == StoryInit /\ [][StoryNext]_vars

\* one call of executeTestRun
Init ==
    /\ ProcessIdle
    /\ FindIdle
    /\ StepIdle
    /\ CryptoIdle
    /\ UsersIdle
    /\ stories \in RunStories
    /\ environment \in Environments
    /\ credentialsMap \in SUBSET Roles
    /\ RunStart
    /\ story = [nsteps |-> 0, verifications |-> <<>>]
    /\ options = RunOptions(Undefined, Undefined, {})
    /\ expected = <<>>
    /\ currentUrl = <<>>
    /\ browser = "null"
    /\ StoryStart

Next ==
    \/ Start \/ Boundary \/ SkipStory \/ CallExecuteStory
    \/ StoryReturned \/ StoryThrew \/ Complete \/ Cancel

Spec == Init /\ [][Next]_vars

\* executeTestRun with a persistence collaborator whose calls can reject
FaultNext == Next \/ SkipStoryThrows \/ SaveResultThrows \/ StoryReturnedThrows

SpecFaults == Init /\ [][FaultNext]_vars

\* executeTestRun from the loop over the test users on
UsersInit ==
    /\ ProcessIdle
    /\ FindIdle
    /\ StepIdle
    /\ CryptoIdle
    /\ testUsers \in TestUserLists
    /\ ui = 0
    /\ decryptLog = <<>>
    /\ stories \in RunStories
    /\ environment \in Environments
    /\ credentialsMap = {}
    /\ RunStart
    /\ story = [nsteps |-> 0, verifications |-> <<>>]
    /\ options = RunOptions(Undefined, Undefined, {})
    /\ expected = <<>>
    /\ currentUrl = <<>>
    /\ browser = "null"
    /\ StoryStart

UsersNext == DecryptUser \/ Next

SpecUsers == UsersInit /\ [][UsersNext]_vars

\* executeStory calls of several tasks of one process, from a fresh module
StoryIdle ==
    /\ story = [nsteps |-> 0, verifications |-> <<>>]
    /\ options = RunOptions(Undefined, Undefined, {})
    /\ expected = <<>>
    /\ currentUrl = <<>>
    /\ StoryStart

RunIdle ==
    /\ stories = <<>>
    /\ environment = [auth_config |-> Undefined]
    /\ credentialsMap = {}
    /\ RunStart

BrowserInit ==
    /\ ProcessIdle
    /\ FindIdle
    /\ StepIdle
    /\ CryptoIdle
    /\ UsersIdle
    /\ browser = "null"
    /\ StoryIdle
    /\ RunIdle

BrowserNext ==
    \E c \in Callers :
       \/ EnterExecuteStory(c) \/ CheckBrowser(c)
       \/ LaunchSettles(c) \/ RunOnBrowser(c)

SpecBrowser == BrowserInit /\ [][BrowserNext]_vars

\* one call of findElement
FindInit ==
    /\ target \in Targets
    /\ fpc = "start"
    /\ strategies = <<>>
    /\ si = 0
    /\ tried = <<>>
    /\ visible = Undefined
    /\ found = NotFound
    /\ ProcessIdle
    /\ StepIdle
    /\ CryptoIdle
    /\ UsersIdle
    /\ browser = "launched"
    /\ StoryIdle
    /\ RunIdle

FindNext == FindStart \/ TryStrategy \/ Fallback

SpecFind == FindInit /\ [][FindNext]_vars

\* one call of executeStep
StepInit ==
    /\ step \in Steps
    /\ epc = "start"
    /\ action = <<>>
    /\ branch = Undefined
    /\ pwCalls = <<>>
    /\ raised = Undefined
    /\ stepReturn = NoStepResult
    /\ ProcessIdle
    /\ FindIdle
    /\ CryptoIdle
    /\ UsersIdle
    /\ browser = "launched"
    /\ StoryIdle
    /\ RunIdle

StepNext == Classify \/ PageCall \/ StepReturns \/ StepCatches

SpecStep == StepInit /\ [][StepNext]_vars

\* ------------------------------------------------ executeStep on wait steps
WaitInit ==
    /\ step \in WaitSteps
    /\ epc = "start"
    /\ action = <<>>
    /\ branch = Undefined
    /\ pwCalls = <<>>
    /\ raised = Undefined
    /\ stepReturn = NoStepResult
    /\ ProcessIdle
    /\ FindIdle
    /\ CryptoIdle
    /\ UsersIdle
    /\ browser = "launched"
    /\ StoryIdle
    /\ RunIdle

SpecWait == WaitInit /\ [][StepNext]_vars

\* ------------------------------------------- encrypt and decrypt on their own
\* encrypt(plaintext) and then decrypt of what it returned, or decrypt of a
\* text from elsewhere
CryptoInit ==
    /\ encryptionKey \in EncryptionKeys
    /\ \/ /\ plaintext \in Plaintexts
          /\ ciphertext = <<>>
          /\ cpc = "encrypt"
       \/ /\ plaintext = NoPlaintext
          /\ ciphertext \in RawInputs
          /\ cpc = "decrypt"
    /\ salt = <<>>
    /\ derivedKey = 0
    /\ parts = <<>>
    /\ deriveCalls = <<>>
    /\ decipherCalls = 0
    /\ decrypted = <<>>
    /\ cryptoError = Undefined
    /\ rekeyed = FALSE
    /\ UsersIdle
    /\ ProcessIdle
    /\ FindIdle
    /\ StepIdle
    /\ browser = "null"
    /\ StoryIdle
    /\ RunIdle

CryptoNext ==
    EncryptDerive \/ EncryptFinish \/ ChangeKey \/ DecryptSplit \/ DecryptDerive
    \/ DecryptFinish

SpecCrypto == CryptoInit /\ [][CryptoNext]_vars

\* ------------------------------------------------- the history, summarised
StepIndexes == 0..(story.nsteps - 1)

\* the positions in log of the executeStep calls for step s
CallsOf(s) == {n \in 1..Len(log) : log[n].step = s}

Calls(s) == Cardinality(CallsOf(s))

Fails(s) == Cardinality({n \in CallsOf(s) : ~log[n].passed})

TotalFails == Cardinality({n \in 1..Len(log) : ~log[n].passed})

PassedAt(s) == {n \in CallsOf(s) : log[n].passed}

AuthFailed == authResult \notin {Undefined, "success"}

C2_RetriesCountFailedAttempts ==
    spc = "returned" => Result.retries = TotalFails

C2_Witness ==
    /\ spc = "returned"
    /\ Len(stepResults) = 2
    /\ Fails(0) = 1 /\ stepResults[1].passed
    /\ Fails(1) = options.retryCount + 1 /\ ~stepResults[2].passed
    /\ Result.retries = options.retryCount + 2

\* a step that passed after k failed attempts: reported passed, k retries,
\* no further attempt
C3_PassAfterFails ==
    /\ retries = TotalFails
    /\ \A s \in StepIndexes :
          LET c == CallsOf(s)
              p == {n \in c : log[n].passed}
          IN  \A n \in p :
                 /\ \A m \in c : m <= n /\ (m < n => ~log[m].passed)
                 /\ Cardinality(c) = Cardinality(c \ p) + 1
                 /\ Cardinality(c \ p) <= options.retryCount
                 /\ spc = "returned" =>
                       s < Len(stepResults) /\ stepResults[s + 1].passed

\* the steps list is in step order and keeps each step's final attempt
C3_FinalAttemptKept ==
    /\ \A k \in 1..Len(stepResults) :
          LET c == CallsOf(k - 1)
          IN  /\ stepResults[k].step = k - 1
              /\ c # {}
              /\ \A n \in c : (\A m \in c : m <= n) =>
                    stepResults[k].passed = log[n].passed
    /\ (Len(stepResults) > 0 /\ lastCall.step = Len(stepResults) - 1) =>
          stepResults[Len(stepResults)] = lastCall

\* C3 as stated: ... and the steps list holds exactly one StepResult per
\* attempted step.
C3_Original ==
    /\ C3_PassAfterFails
    /\ C3_FinalAttemptKept
    /\ spc = "returned" =>
          \A s \in StepIndexes : Calls(s) > 0 => s < Len(stepResults)

\* C3 amended: a step that fails k <= retryCount times and then passes is
\* reported passed, adds k to retries and is not attempted again; the steps
\* list holds, in step order, the final attempt's result of every step whose
\* retry loop ended; an attempted step has no StepResult only if the wait
\* before its retry threw, which ends the story in the outer catch.
C3_Amended ==
    /\ C3_PassAfterFails
    /\ C3_FinalAttemptKept
    /\ spc = "returned" =>
          \A s \in StepIndexes : (Calls(s) > 0 /\ s >= Len(stepResults)) =>
             /\ s = Len(stepResults)
             /\ PassedAt(s) = {}
             /\ Calls(s) <= options.retryCount
             /\ caught = "waitForTimeout failed"
             /\ ~passed

C3_Witness ==
    /\ spc = "returned"
    /\ options.retryCount = 2
    /\ Calls(0) = 3 /\ Fails(0) = 2
    /\ stepResults[1].passed
    /\ retries = 2
    /\ Len(stepResults) = story.nsteps

\* what holds of the steps list once a step has used up its retries
C4_State ==
    /\ \A k \in 1..(Len(stepResults) - 1) : stepResults[k].passed
    /\ (Len(stepResults) > 0 /\ ~stepResults[Len(stepResults)].passed) =>
          /\ ~passed
          /\ verified = 0
          /\ Calls(Len(stepResults) - 1) = options.retryCount + 1
          /\ \A n \in 1..Len(log) : log[n].step < Len(stepResults)
    /\ (spc = "returned" /\ Len(stepResults) < story.nsteps) => ~Result.passed

\* the step that records a failed final attempt marks the story failed with
\* that attempt's error
C4_Marks ==
    (Len(stepResults') = Len(stepResults) + 1
        /\ ~stepResults'[Len(stepResults')].passed) =>
       /\ ~passed'
       /\ error' = lastCall.error
       /\ lastCall.error \in StepErrors

\* C4: fail-fast: a step that still fails after retryCount + 1 attempts marks
\* the story failed with its last error; no later step is attempted and no
\* verification evaluated; all StepResults but the last are passed, and the
\* list is shorter than the story's steps only if the story failed.
C4_FailFast == []C4_State /\ [][C4_Marks]_vars

C4_Witness ==
    /\ spc = "returned"
    /\ story.nsteps = 2
    /\ story.verifications # <<>>
    /\ Len(stepResults) = 1
    /\ ~stepResults[1].passed
    /\ Result.error = stepResults[1].error

\* C5: every browsing context executeStory opened is closed when it finishes,
\* by return or by exception.
C5_ContextClosed ==
    spc \in {"returned", "thrown"} => context # "open"

\* C6: executeStory never throws: every exception raised in its lifecycle is
\* caught and yields a result with passed = false and the exception's message.
C6_NeverThrows ==
    /\ spc # "thrown"
    /\ (spc = "returned" /\ caught # Undefined) =>
          ~Result.passed /\ Result.error = caught

\* C7: a failed form login is returned by authenticateUser, not thrown;
\* executeStory then executes no step and no verification, and the result it
\* returns is failed with the authentication error and an empty steps list.
\* (The one exception that can escape afterwards is context.close()'s.)
C7_AuthFailureAbortsStory ==
    AuthFailed =>
       /\ ShouldAuthenticate(options)
       /\ log = <<>> /\ verified = 0
       /\ spc \in {"catchScreenshot", "finally", "returned", "thrown"}
       /\ spc = "thrown" => thrown = "close failed"
       /\ spc = "returned" =>
             /\ ~Result.passed
             /\ Result.error = authResult
             /\ Result.steps = <<>>

C7_Witness ==
    /\ spc = "returned"
    /\ authResult = "Authentication failed: fill"
    /\ story.nsteps > 0
    /\ story.verifications # <<>>

\* C8 as stated: after a failed login no screenshot is taken and no upload
\* attempted, even with screenshotOnFailure.
C8_Original ==
    AuthFailed => screenshots = 0 /\ uploads = 0 /\ screenshotUrl = Undefined

\* C8 amended: a failed login ends in the outer catch: with screenshotOnFailure
\* false no screenshot is taken and no upload attempted; with it true exactly
\* one screenshot is attempted before teardown, and uploaded unless
\* page.screenshot rejects, so the result can carry a screenshot_url.
C8_Amended ==
    AuthFailed =>
       /\ uploads <= screenshots
       /\ screenshotUrl # Undefined => uploads = 1
       /\ ~options.screenshotOnFailure =>
             screenshots = 0 /\ screenshotUrl = Undefined /\ spc # "catchScreenshot"
       /\ options.screenshotOnFailure =>
             screenshots = IF spc = "catchScreenshot" THEN 0 ELSE 1

C8_Witness ==
    /\ spc = "returned"
    /\ AuthFailed
    /\ options.screenshotOnFailure
    /\ screenshots = 1 /\ uploads = 1
    /\ Result.screenshot_url # Undefined

\* the gating condition of the spec, stated on the inputs
MustSkip(k) ==
    LET role == stories[k].required_role
    IN  /\ role # Undefined
        /\ \/ environment.auth_config = Undefined
           \/ environment.auth_config # "form"
           \/ role \notin credentialsMap

ResultRows(k) == {n \in 1..Len(testResults) : testResults[n].story_id = k}

\* C9: a story with a required role is skipped when the environment's
\* auth_config is absent or not `form`, or no credential exists for the role:
\* one result row with the skip reason, last_result "skipped", no executeStory
\* call for it, and the loop goes on to the next story.
C9_GatingSkips ==
    /\ \A k \in 1..Len(stories) : MustSkip(k) =>
          /\ \A n \in 1..Len(storyCalls) : storyCalls[n].story # k
          /\ k <= idx =>
                /\ lastResult[k] = "skipped"
                /\ Cardinality(ResultRows(k)) = 1
                /\ \A n \in ResultRows(k) :
                      /\ ~testResults[n].passed
                      /\ testResults[n].error \in
                            {"Story requires role " \o stories[k].required_role
                                \o " but environment auth is not configured for form login",
                             "Missing test user for required role: "
                                \o stories[k].required_role}
    /\ (rpc = "done" /\ idx < Len(stories)) => testRun.status = "cancelled"

C9_Witness ==
    /\ rpc = "done"
    /\ testRun.status = "completed"
    /\ Len(stories) = 2
    /\ MustSkip(1) /\ environment.auth_config = "none"
    /\ lastResult = <<"skipped", "passed">>

Among(k, outcome) == Cardinality({j \in 1..k : lastResult[j] = outcome})

\* skipped stories are counted in skipped alone, in the locals, in the row of
\* the run and in every onProgress call
C10_State ==
    /\ counts.skipped = Among(idx, "skipped")
    /\ counts.passed = Among(idx, "passed")
    /\ counts.failed = Among(idx, "failed")
    /\ testRun.stories_skipped = counts.skipped
    /\ \A n \in 1..Len(progress) :
          /\ progress[n].skipped = Among(progress[n].completed, "skipped")
          /\ progress[n].passed = Among(progress[n].completed, "passed")
          /\ progress[n].failed = Among(progress[n].completed, "failed")

\* the step that skips a story adds one to skipped and leaves passed and failed
C10_SkipFrame ==
    (idx' = idx + 1 /\ lastResult'[idx'] = "skipped") =>
       /\ counts' = [counts EXCEPT !.skipped = @ + 1]
       /\ testRun'.stories_skipped = testRun.stories_skipped + 1
       /\ testRun'.stories_passed = counts.passed
       /\ testRun'.stories_failed = counts.failed

\* C10: a skipped story increments only the skipped counter (the local, the
\* persisted stories_skipped, the value given to onProgress) and leaves the
\* passed and failed counters as they were.
C10_SkippedCountedApart == []C10_State /\ [][C10_SkipFrame]_vars

C10_Witness ==
    /\ rpc = "done"
    /\ counts = [passed |-> 1, failed |-> 0, skipped |-> 1]
    /\ testRun.stories_skipped = 1
    /\ progress[Len(progress)].skipped = 1
    /\ progress[Len(progress)].completed = 2

\* the stories a set of counters accounts for
Counted(c) == c.passed + c.failed + c.skipped

Persisted == [passed |-> testRun.stories_passed, failed |-> testRun.stories_failed,
              skipped |-> testRun.stories_skipped]

\* the step taken at a loop head where the run is read as cancelled
C11_Stops ==
    (rpc = "boundary" /\ idx < Len(stories) /\ testRun.status = "cancelled") =>
       /\ rpc' = "done"
       /\ testRun' = [testRun EXCEPT !.current_story_id = NoStory]
       /\ UNCHANGED <<idx, counts, testResults, lastResult, storyCalls,
                      storyOutcomes, progress>>

\* a run that returned before its last story
C11_State ==
    (rpc = "done" /\ idx < Len(stories)) =>
       /\ testRun.status = "cancelled"
       /\ testRun.current_story_id = NoStory
       /\ Len(testResults) = idx
       /\ Len(progress) = idx
       /\ \A n \in 1..Len(testResults) : testResults[n].story_id <= idx
       /\ \A n \in 1..Len(storyCalls) : storyCalls[n].story <= idx
       /\ \A k \in (idx + 1)..Len(stories) : lastResult[k] = Undefined

\* C11: when the status read at the boundary before story k is cancelled,
\* executeTestRun stops there: stories k..n are neither executed nor given a
\* result row, the current-story marker is cleared, no counter changes, the
\* run is not marked completed, and the function returns.
C11_CancelStops == []C11_State /\ [][C11_Stops]_vars

C11_Witness ==
    /\ rpc = "done"
    /\ testRun.status = "cancelled"
    /\ Len(stories) = 2
    /\ idx = 1
    /\ Len(storyCalls) = 1
    /\ Persisted = [passed |-> 1, failed |-> 0, skipped |-> 0]

\* a run cancelled while story k was in progress: story k ends with its row
\* and its count, and no story after k is started
C12_State ==
    LET k == cancelledAt.idx + 1
    IN  cancelledAt.rpc \in {"gate", "executeStory"} =>
           \/ rpc \in {"gate", "executeStory"} /\ idx = k - 1
           \/ /\ rpc \in {"boundary", "done"}
              /\ idx = k
              /\ Cardinality(ResultRows(k)) = 1
              /\ lastResult[k] # Undefined
              /\ Counted(counts) = k
              /\ \A n \in 1..Len(storyCalls) : storyCalls[n].story <= k
              /\ (rpc = "done" /\ k < Len(stories)) => testRun.status = "cancelled"

\* the steps of a story in progress do not look at the status: they end with
\* the story's row inserted and the story counted
C12_Finishes ==
    (testRun.status = "cancelled" /\ rpc \in {"gate", "executeStory"}) =>
       /\ rpc' \in {"gate", "executeStory", "boundary"}
       /\ rpc' = "boundary" =>
             /\ idx' = idx + 1
             /\ Len(testResults') = Len(testResults) + 1
             /\ testResults'[Len(testResults')].story_id = idx'
             /\ Counted(counts') = Counted(counts) + 1

\* C12: cancellation is looked at only at story boundaries: a story in
\* progress when the run is cancelled still runs to completion, and its result
\* is recorded and counted before the cancellation takes effect at the next
\* boundary.
C12_CancelAtBoundaryOnly == []C12_State /\ [][C12_Finishes]_vars

C12_Witness ==
    /\ cancelledAt = [rpc |-> "executeStory", idx |-> 0]
    /\ rpc = "done"
    /\ testRun.status = "cancelled"
    /\ Len(stories) = 2
    /\ idx = 1
    /\ lastResult[1] = "passed" /\ lastResult[2] = Undefined
    /\ counts.passed = 1

\* the executeStory calls that ended in an exception
Threw == {n \in 1..Len(storyOutcomes) : storyOutcomes[n].threw}

C13_State ==
    /\ \A n \in Threw :
          LET k == storyOutcomes[n].story
          IN  /\ k <= idx
              /\ lastResult[k] = "failed"
              /\ Cardinality(ResultRows(k)) = 1
              /\ \A r \in ResultRows(k) :
                    /\ ~testResults[r].passed
                    /\ testResults[r].error = storyOutcomes[n].error
    /\ counts.failed =
          Cardinality({n \in 1..Len(storyOutcomes) : ~storyOutcomes[n].passed})
    /\ (rpc = "done" /\ testRun.status # "cancelled") => idx = Len(stories)

\* the step that handles the exception goes back to the loop head
C13_Proceeds ==
    (Len(storyOutcomes') > Len(storyOutcomes)
        /\ storyOutcomes'[Len(storyOutcomes')].threw) =>
       /\ rpc' = "boundary"
       /\ idx' = idx + 1
       /\ counts' = [counts EXCEPT !.failed = @ + 1]

\* C13: an exception thrown by executeStory is caught by executeTestRun: the
\* story is counted as failed, a failed result row with the exception's
\* message is recorded, and the loop goes on to the next story; no story's
\* exception aborts the batch.
C13_ExceptionIsolated == []C13_State /\ [][C13_Proceeds]_vars

C13_Witness ==
    /\ rpc = "done"
    /\ testRun.status = "completed"
    /\ Len(storyOutcomes) = 2
    /\ storyOutcomes[1].threw /\ storyOutcomes[1].error = "newPage failed"
    /\ ~storyOutcomes[2].threw /\ storyOutcomes[2].passed
    /\ counts = [passed |-> 1, failed |-> 1, skipped |-> 0]

\* C14: at the boundary before story i + 1 the persisted stories_passed +
\* stories_failed + stories_skipped accounts for all i stories processed so
\* far, whatever their outcome, so a run cancelled at that boundary is left
\* with counters that reflect exactly the stories processed.
C14_PersistedAccountsForAll ==
    (rpc = "boundary" \/ (rpc = "done" /\ testRun.status = "cancelled")) =>
       Counted(Persisted) = idx

\* the values given to onProgress never decrease from one call to the next
C15_State ==
    \A n \in 2..Len(progress) :
       /\ progress[n].passed >= progress[n - 1].passed
       /\ progress[n].failed >= progress[n - 1].failed
       /\ progress[n].skipped >= progress[n - 1].skipped
       /\ progress[n].completed >= progress[n - 1].completed

\* no write to the row of the run lowers a counter
C15_Step ==
    /\ testRun'.stories_passed >= testRun.stories_passed
    /\ testRun'.stories_failed >= testRun.stories_failed
    /\ testRun'.stories_skipped >= testRun.stories_skipped

\* C15: through one execution of executeTestRun the persisted counters
\* stories_passed, stories_failed and stories_skipped, and the passed, failed,
\* skipped and completed values given to onProgress, never decrease.
C15_CountersMonotonic == []C15_State /\ [][C15_Step]_vars

C15_Witness ==
    /\ rpc = "done"
    /\ Len(progress) = 3
    /\ progress[2].failed = 1 /\ progress[2].completed = 1
    /\ progress[3].passed = 1 /\ progress[3].failed = 1
    /\ Persisted = [passed |-> 1, failed |-> 1, skipped |-> 0]

\* C16: a run marked completed, after all stories or with none, has persisted
\* stories_passed + stories_failed + stories_skipped = stories_total and its
\* current-story marker cleared.
C16_CompletedAccounts ==
    testRun.status = "completed" =>
       /\ rpc = "done"
       /\ testRun.stories_total = Len(stories)
       /\ Counted(Persisted) = testRun.stories_total
       /\ testRun.current_story_id = NoStory

C16_Witness ==
    /\ testRun.status = "completed"
    /\ testRun.stories_total = 2
    /\ Cardinality(Threw) = 1
    /\ Persisted = [passed |-> 0, failed |-> 1, skipped |-> 1]

\* the verifications evaluated so far: after the steps, in declared order,
\* none after a failed one
C17_State ==
    LET n == Len(verifyLog)
    IN  /\ n = verified /\ n <= Len(story.verifications)
        /\ n > 0 =>
              /\ Len(stepResults) = story.nsteps
              /\ \A k \in 1..Len(stepResults) : stepResults[k].passed
        /\ \A m \in 1..n :
              /\ verifyLog[m].index = m
              /\ verifyLog[m].type = story.verifications[m]
              /\ m < n => verifyLog[m].error = ""
        /\ (n > 0 /\ verifyLog[n].error # "") =>
              /\ ~passed
              /\ caught = Undefined => error = verifyLog[n].error

\* the step that evaluates a failing verification sets the story's error
C17_Marks ==
    (Len(verifyLog') > Len(verifyLog) /\ verifyLog'[Len(verifyLog')].error # "") =>
       /\ ~passed'
       /\ error' = verifyLog'[Len(verifyLog')].error

\* C17: verifications are evaluated only if every step passed, in declared
\* order, and evaluation stops at the first failing one: the story's error is
\* that verification's message and no later verification is evaluated.
C17_VerificationsShortCircuit == []C17_State /\ [][C17_Marks]_vars

C17_Witness ==
    /\ spc = "returned"
    /\ story.nsteps = 2
    /\ story.verifications = <<"element", "url">>
    /\ Len(verifyLog) = 1
    /\ Result.error = "element not visible"
    /\ ~Result.passed

AllStepsPassed == \A s \in StepIndexes : PassedAt(s) # {}

PassedWithAllSteps ==
    /\ Result.passed
    /\ Result.error = Undefined
    /\ Len(Result.steps) = story.nsteps
    /\ \A k \in 1..Len(Result.steps) : Result.steps[k].passed

\* C18 as stated: a story whose steps all pass and whose outcome has no
\* verification is reported with passed = true and one passed StepResult per
\* step.
C18_Original ==
    (spc = "returned" /\ story.verifications = <<>> /\ AllStepsPassed) =>
       PassedWithAllSteps

\* C18 amended: a story whose login and navigation to the base URL succeed,
\* whose steps all pass and whose outcome has no verification is reported with
\* passed = true and one passed StepResult per step.
C18_Amended ==
    (spc = "returned" /\ story.verifications = <<>> /\ AllStepsPassed
        /\ caught = Undefined) =>
       PassedWithAllSteps

C18_Witness ==
    /\ spc = "returned"
    /\ story.verifications = <<>>
    /\ story.nsteps = 2
    /\ Fails(0) = 1 /\ Fails(1) = 0
    /\ PassedWithAllSteps
    /\ authResult = "success"

\* a verification of a type the code does not handle
Unhandled(v) == v.type \notin {"url", "element", "content"}

C20_State ==
    \A m \in 1..Len(verifyLog) : Unhandled(verifyLog[m]) =>
       /\ verifyLog[m].error = ""
       /\ (m < Len(story.verifications) /\ spc # "verify") => Len(verifyLog) > m

\* the step that evaluates it changes neither passed nor error and stays in
\* the loop
C20_Step ==
    (Len(verifyLog') > Len(verifyLog) /\ Unhandled(verifyLog'[Len(verifyLog')])) =>
       /\ UNCHANGED <<passed, error>>
       /\ passed'
       /\ vi' = vi + 1
       /\ spc' = "verify"

\* C20: a verification whose type is none of url, element, content is a no-op
\* that passes: it changes neither the passed flag nor the error, and the
\* evaluation goes on with the next verification.
C20_UnknownTypeIsNoOp == []C20_State /\ [][C20_Step]_vars

C20_Witness ==
    /\ spc = "returned"
    /\ story.verifications = <<"visual", "url">>
    /\ Len(verifyLog) = 2
    /\ verifyLog[2].error = "url mismatch"
    /\ Result.error = "url mismatch"

\* sub occurs in s: some stretch of s equals sub, character by character
Occurs(sub, s) ==
    \E a \in 0..Len(s) :
       /\ a + Len(sub) <= Len(s)
       /\ \A j \in 1..Len(sub) : s[a + j] = sub[j]

\* C19: a url verification passes if and only if the current page URL contains
\* the expected value as a substring; when it fails, the error message
\* contains both the expected substring and the actual URL.
C19_UrlVerification ==
    Len(verifyLog) = 1 =>
       /\ passed <=> Occurs(expected, currentUrl)
       /\ passed => error = Undefined
       /\ ~passed =>
             /\ Occurs(expected, error)
             /\ Occurs(currentUrl, error)
             /\ verifyLog[1].error = error

C19_Witness ==
    /\ spc = "returned"
    /\ Len(verifyLog) = 1
    /\ expected = <<"a", "b">>
    /\ currentUrl = <<"b", "/", "a">>
    /\ ~Result.passed
    /\ Result.error = UrlError(<<"a", "b">>, <<"b", "/", "a">>)

\* C28: after every story that was processed (passed, failed, skipped or
\* thrown), onProgress is called with cumulative counts that include the
\* story, before executeTestRun returns.
C28_ProgressAfterEveryStory ==
    rpc = "done" =>
       \A k \in 1..idx : \E n \in 1..Len(progress) :
          /\ progress[n].completed >= k
          /\ progress[n].passed + progress[n].failed + progress[n].skipped >= k

\* C29: the steps of a story are attempted in declared order, one at a time:
\* the attempts of a step are consecutive, the first attempt is of step 0,
\* and the first attempt of step i + 1 comes right after a passing attempt of
\* step i.
C29_StepsInOrder ==
    /\ log # <<>> => log[1].step = 0
    /\ \A n \in 1..(Len(log) - 1) :
          \/ log[n + 1].step = log[n].step /\ ~log[n].passed
          \/ log[n + 1].step = log[n].step + 1 /\ log[n].passed
    /\ spc \in {"while", "retryWait", "push"} =>
          \A n \in 1..Len(log) : log[n].step <= i

C29_Witness ==
    /\ spc = "returned"
    /\ story.nsteps = 2
    /\ Len(log) = 4
    /\ ~log[1].passed /\ log[2].passed /\ log[2].step = 0
    /\ ~log[3].passed /\ log[4].passed /\ log[4].step = 1

\* the condition of the login, on the options
FormLogin == options.credentials /\ options.authConfig = "form"

\* C30: executeStory calls authenticateUser if and only if credentials are
\* supplied and the authConfig is supplied with type form; in every other case
\* it does not authenticate and navigates to the base URL instead, before the
\* first step.
C30_AuthenticatesIffForm ==
    /\ authResult # Undefined => FormLogin
    /\ baseGotos > 0 => ~FormLogin
    /\ baseGotos <= 1
    /\ (log # <<>> \/ spc \in {"for", "while", "afterSteps", "returned"}) =>
          IF FormLogin THEN authResult # Undefined /\ baseGotos = 0
          ELSE authResult = Undefined /\ baseGotos = 1

C30_Witness ==
    /\ spc = "returned"
    /\ options.credentials
    /\ options.authConfig = "basic"
    /\ baseGotos = 1
    /\ authResult = Undefined
    /\ Len(log) = 2

\* C27: the browser is a process-wide singleton started lazily on first use:
\* over any sequence or interleaving of executeStory calls in one process it
\* is launched at most once, and every call uses that one browser.
C27_SingleBrowser ==
    /\ launches <= 1
    /\ Cardinality(used) <= 1
    /\ \A c \in Callers : callers[c].got \in {"null", browser}

\* the target reads as a CSS selector: its first character is #, . or [, or
\* some character of it is =
LooksLikeCss ==
    \/ (target # <<>> /\ target[1] \in {"#", ".", "["})
    \/ \E k \in 1..Len(target) : target[k] = "="

\* C23: findElement returns the target itself as a CSS selector, evaluating
\* no strategy, exactly when the target starts with #, . or [ or contains =;
\* every other target goes through the strategies.
C23_CssLikeIsLiteral ==
    /\ fpc = "strategies" => ~LooksLikeCss
    /\ fpc = "returned" =>
          IF LooksLikeCss
          THEN found = [by |-> "css", locator |-> target] /\ tried = <<>>
          ELSE found.by \in {"strategy", "fallback"} /\ tried # <<>>

C23_Witness ==
    /\ fpc = "returned"
    /\ target = Join(<<<<"S", "a", "v", "e">>, <<"a", "=", "b">>>>)
    /\ found.by = "css"
    /\ tried = <<>>

\* the strategies are evaluated in the order of the list
C24_State ==
    /\ Len(tried) <= Len(strategies)
    /\ \A k \in 1..Len(tried) : tried[k] = strategies[k]
    /\ found.by = "strategy" =>
          /\ visible = "visible"
          /\ found.locator = tried[Len(tried)]
    /\ found.by = "fallback" =>
          /\ tried = strategies
          /\ visible # "visible"
          /\ found.locator = target

\* a visible first match ends the search with that strategy; a strategy that
\* throws or whose first match is not visible is skipped
C24_Step ==
    tried' # tried =>
       /\ tried' = Append(tried, strategies[Len(tried) + 1])
       /\ IF visible' = "visible"
          THEN /\ fpc' = "returned"
               /\ found' = [by |-> "strategy", locator |-> tried'[Len(tried')]]
          ELSE /\ visible' \in {"hidden", "throws"}
               /\ fpc' = "strategies"
               /\ found' = NotFound

\* C24: for a target that is not CSS-like, findElement evaluates its
\* strategies in list order and returns the first match of the first strategy
\* whose first matching element is visible, trying no later strategy; a
\* strategy that throws or is not visible is skipped; if none yields a visible
\* element it returns a locator for the target itself.
C24_FirstVisibleWins == []C24_State /\ [][C24_Step]_vars

C24_Witness ==
    /\ fpc = "returned"
    /\ target = <<"S", "a", "v", "e">>
    /\ tried = <<"getByLabel", "getByPlaceholder", "getByRole(textbox)",
                 "getByRole(button)">>
    /\ found = [by |-> "strategy", locator |-> "getByRole(button)"]

\* the keywords that seed selectors, with the selectors each one seeds
Seeds ==
    {[keywords |-> {<<"e", "m", "a", "i", "l">>}, selectors |-> EmailStrategies],
     [keywords |-> {<<"p", "a", "s", "s", "w", "o", "r", "d">>}, selectors |-> PasswordStrategies],
     [keywords |-> {<<"u", "s", "e", "r", "n", "a", "m", "e">>}, selectors |-> UsernameStrategies],
     [keywords |-> {<<"s", "u", "b", "m", "i", "t">>,
                    <<"l", "o", "g", "i", "n">>,
                    <<"s", "i", "g", "n", " ", "i", "n">>},
      selectors |-> SubmitStrategies]}

Range(f) == {f[k] : k \in DOMAIN f}

\* word occurs in text: some stretch of text is word
Within(word, text) ==
    \E a \in 1..(Len(text) - Len(word) + 1) :
       SubSeq(text, a, a + Len(word) - 1) = word

\* the selectors seeded for the target
SeededFor ==
    LET lower == ToLowerCase(target)
    IN  UNION {Range(seed.selectors) :
                  seed \in {x \in Seeds : \E kw \in x.keywords : Within(kw, lower)}}

\* C25: every selector seeded by a keyword of the lower-cased target (email,
\* password, username, submit / login / sign in) is tried before every generic
\* strategy, and the generic strategies keep the order label, placeholder,
\* textbox role, button role, link role, free text; an element resolved by a
\* seeded selector is resolved with no generic strategy evaluated.
C25_SeededBeforeGeneric ==
    LET seeded == SeededFor
        generics == Range(GenericStrategies)
        generic == {k \in 1..Len(tried) : tried[k] \in generics}
    IN  tried # <<>> =>
           /\ \A k \in 1..Len(tried) : tried[k] \in seeded \cup generics
           /\ \A k \in generic :
                 /\ seeded \subseteq {tried[j] : j \in 1..(k - 1)}
                 /\ \A j \in (k + 1)..Len(tried) : j \in generic
                 /\ tried[k] = GenericStrategies[Cardinality({j \in generic : j <= k})]
           /\ (found.by = "strategy" /\ found.locator \in seeded) => generic = {}
           /\ found.by = "fallback" =>
                 Len(tried) = Cardinality(seeded) + Len(GenericStrategies)

C25_Witness ==
    /\ fpc = "returned"
    /\ target = <<"S", "u", "b", "m", "i", "t">>
    /\ tried = <<"button[type=submit]">>
    /\ found = [by |-> "strategy", locator |-> "button[type=submit]"]

\* the keyword groups, in the order the spec gives them
KeywordGroups ==
    <<[name |-> "navigate", keywords |-> {ActionKeywords.navigate, ActionKeywords.goTo}],
      [name |-> "click", keywords |-> {ActionKeywords.click, ActionKeywords.tap}],
      [name |-> "type", keywords |-> {ActionKeywords.type, ActionKeywords.enter, ActionKeywords.fill}],
      [name |-> "select", keywords |-> {ActionKeywords.select, ActionKeywords.choose}],
      [name |-> "check", keywords |-> {ActionKeywords.check}],
      [name |-> "uncheck", keywords |-> {ActionKeywords.uncheck}],
      [name |-> "wait", keywords |-> {ActionKeywords.wait}],
      [name |-> "scroll", keywords |-> {ActionKeywords.scroll}],
      [name |-> "hover", keywords |-> {ActionKeywords.hover}],
      [name |-> "press", keywords |-> {ActionKeywords.press}],
      [name |-> "focus", keywords |-> {ActionKeywords.focus}]>>

\* the groups with a keyword that occurs in the lower-cased label
Matching ==
    LET lower == ToLowerCase(step.action)
    IN  {g \in 1..Len(KeywordGroups) :
            \E kw \in KeywordGroups[g].keywords : Within(kw, lower)}

\* C21: executeStep classifies the lower-cased label by substring match
\* against the keyword groups in the order navigate / go to, click / tap,
\* type / enter / fill, select / choose, check, uncheck, wait, scroll, hover,
\* press, focus: the first group with a matching keyword wins, and a label
\* that matches no group is a click when a selector or element is present.
C21_FirstGroupWins ==
    LET matching == Matching
    IN  branch # Undefined =>
       /\ \A g \in matching :
             (\A h \in matching : g <= h) => branch = KeywordGroups[g].name
       /\ matching = {} =>
             /\ branch = "default"
             /\ Or(step.selector, step.element) # Undefined =>
                   \A k \in 1..Len(pwCalls) :
                      pwCalls[k] =
                         <<[op |-> "findElement", arg |-> Or(step.selector, step.element)],
                           [op |-> "click", arg |-> Undefined],
                           [op |-> "waitForTimeout", arg |-> "100"]>>[k]

C21_Witness ==
    /\ epc = "returned"
    /\ step.action = Join(<<<<"C", "l", "i", "c", "k">>, <<"w", "a", "i", "t">>>>)
    /\ branch = "click"
    /\ step.element = "Submit" /\ step.selector = Undefined
    /\ stepReturn.passed
    /\ Len(pwCalls) = 3 /\ pwCalls[2].op = "click"

\* C22: no exception escapes executeStep: an exception raised while the label
\* is classified, the element resolved or the action performed gives a
\* returned StepResult with passed = false and the exception's message; a
\* StepResult with passed = true carries no error.
C22_StepNeverThrows ==
    /\ epc \in {"start", "try", "catch", "returned"}
    /\ epc \in {"start", "try", "catch"} => ENABLED StepNext
    /\ raised # Undefined => epc \in {"catch", "returned"}
    /\ epc = "returned" =>
          /\ raised # Undefined =>
                ~stepReturn.passed /\ stepReturn.error = raised
          /\ raised = Undefined =>
                stepReturn.passed /\ stepReturn.error = Undefined

C22_Witness ==
    /\ epc = "returned"
    /\ branch = "type"
    /\ Len(pwCalls) = 1
    /\ raised = "findElement failed"
    /\ stepReturn = [step |-> 0, passed |-> FALSE, error |-> "findElement failed"]

\* the number of fields of a text: one more than its colons
FieldCount(text) == 1 + Cardinality({k \in 1..Len(text) : text[k] = ":"})

\* C26: decrypt(encrypt(p)) = p for every plaintext p under the same
\* ENCRYPTION_KEY, and decrypt fails with the format error, before any key
\* derivation or decryption, on every input that does not split on ":" into
\* exactly four fields (and on no other input).
C26_RoundTripAndFormat ==
    /\ (plaintext # NoPlaintext /\ ~rekeyed) =>
          /\ cpc = "returned" => decrypted = plaintext
          /\ cpc = "threw" => (cryptoError = KeyNotSet /\ encryptionKey = "")
    /\ (parts # <<>> /\ FieldCount(ciphertext) # 4) =>
          /\ cpc = "threw"
          /\ cryptoError = InvalidFormat
          /\ \A k \in 1..Len(deriveCalls) : deriveCalls[k] # "decrypt"
          /\ decipherCalls = 0
    /\ cryptoError = InvalidFormat => FieldCount(ciphertext) # 4

C26_Witness ==
    /\ cpc = "returned"
    /\ plaintext = <<58, 55357, 56832>>
    /\ decrypted = plaintext
    /\ FieldCount(ciphertext) = 4
    /\ deriveCalls = <<"encrypt", "decrypt">>
    /\ ~rekeyed

\* the calls of a step that does op on its target and then pauses
TargetCalls(op, arg) ==
    <<[op |-> "findElement", arg |-> Or(step.selector, step.element)],
      [op |-> op, arg |-> arg],
      [op |-> "waitForTimeout", arg |-> "100"]>>

\* the label holds a keyword of a group before check, the "check" inside
\* "uncheck" aside
EarlierThanCheck ==
    LET lower == ToLowerCase(step.action)
    IN  \E g \in 1..4 : \E kw \in KeywordGroups[g].keywords : Within(kw, lower)

\* C31: a step whose label contains "uncheck", no keyword of an earlier group
\* (other than the "check" inside it), and that has a target resolves the
\* target and performs uncheck on it, not check: the calls it makes are, in
\* order, findElement, uncheck, the pause.
C31_UncheckUnchecks ==
    (/\ pwCalls # <<>>
     /\ Or(step.selector, step.element) # Undefined
     /\ Within(ActionKeywords.uncheck, ToLowerCase(step.action))
     /\ ~EarlierThanCheck) =>
       \A k \in 1..Len(pwCalls) : pwCalls[k] = TargetCalls("uncheck", Undefined)[k]

\* the branches whose action needs a target
NeedsTarget == {"click", "type", "select", "check", "hover", "focus", "default"}

TargetLess == step.action # NoAction /\ Or(step.selector, step.element) = Undefined

\* C40 as stated: a step whose action needs a target but has neither selector
\* nor element, or whose label matches no group and has no target, makes no
\* call but the pause and is reported passed.
C40_Original ==
    (TargetLess /\ branch \in NeedsTarget) =>
       /\ \A k \in 1..Len(pwCalls) : pwCalls[k] = [op |-> "waitForTimeout", arg |-> "100"]
       /\ Len(pwCalls) <= 1
       /\ epc = "returned" => stepReturn.passed

\* C40 amended: such a step makes no call but the pause, and is reported
\* passed when the pause resolves; when the pause rejects it is reported
\* failed with the message of the rejection.
C40_Amended ==
    (TargetLess /\ branch \in NeedsTarget) =>
       /\ \A k \in 1..Len(pwCalls) : pwCalls[k] = [op |-> "waitForTimeout", arg |-> "100"]
       /\ Len(pwCalls) <= 1
       /\ raised \in {Undefined, "waitForTimeout failed"}
       /\ epc = "returned" =>
             /\ Len(pwCalls) = 1
             /\ stepReturn.passed <=> raised = Undefined

C40_Witness ==
    /\ epc = "returned"
    /\ branch = "hover"
    /\ TargetLess
    /\ pwCalls = <<[op |-> "waitForTimeout", arg |-> "100"]>>
    /\ stepReturn = [step |-> 0, passed |-> TRUE, error |-> Undefined]

\* the text is an integer: an optional sign and digits, nothing else
IsInteger(chars) ==
    LET digits == IF chars # <<>> /\ chars[1] \in {"-", "+"} THEN Tail(chars) ELSE chars
    IN  digits # <<>> /\ \A k \in 1..Len(digits) : IsDigit(digits[k])

\* the text is a decimal numeral as ToString writes it: no sign, no leading 0
IsNumeral(chars) ==
    /\ chars # <<>>
    /\ \A k \in 1..Len(chars) : IsDigit(chars[k])
    /\ chars[1] = "0" => Len(chars) = 1

\* C32: a wait step pauses for the integer millisecond duration parsed from
\* value, and for the default 1000 ms whenever value is missing or is not an
\* integer: the first call is page.waitForTimeout with that duration.
C32_WaitDuration ==
    (branch = "wait" /\ pwCalls # <<>>) =>
       /\ pwCalls[1].op = "waitForTimeout"
       /\ step.value \in {Undefined, ""} => pwCalls[1].arg = "1000"
       /\ (step.value \notin {Undefined, ""} /\ IsNumeral(ValueChars[step.value])) =>
             pwCalls[1].arg = step.value
       /\ (step.value \notin {Undefined, ""} /\ ~IsInteger(TrimStart(ValueChars[step.value]))) =>
             pwCalls[1].arg = "1000"

\* C33: once an outside actor has set the run's status to cancelled,
\* executeTestRun never overwrites it: no step of the run takes the status
\* from cancelled to another value, so the final status is cancelled.
C33_CancelledIsKept ==
    [][testRun.status = "cancelled" => testRun'.status = "cancelled"]_vars

\* C34: at every call of onProgress, completed = passed + failed + skipped
\* <= total: each processed story has incremented exactly one of the three
\* counters exactly once, also when a persistence call made after the counter
\* was incremented threw into the catch block.
C34_CountedOnce ==
    /\ \A k \in 1..Len(progress) :
          /\ progress[k].completed
                = progress[k].passed + progress[k].failed + progress[k].skipped
          /\ progress[k].completed <= progress[k].total
    /\ rpc = "boundary" => counts.passed + counts.failed + counts.skipped = idx

\* C35: executeTestRun inserts exactly one test_results record for each story
\* it processes, on every path (skipped, executeStory returned, executeStory
\* threw), in the order of the stories, and none for the story in progress or
\* the stories after it, so none for the stories after a cancellation.
C35_OneRowPerStory ==
    /\ Len(testResults) = idx
    /\ \A k \in 1..Len(stories) :
          Cardinality(ResultRows(k)) = IF k <= idx THEN 1 ELSE 0
    /\ \A n \in 1..Len(testResults) : testResults[n].story_id = n
    /\ rpc = "done" => idx \in {0, Len(stories)} \/ cancelledAt # NotCancelled

C35_Witness ==
    /\ rpc = "done"
    /\ Len(stories) = 2
    /\ idx = 1
    /\ cancelledAt.idx = 0
    /\ Len(storyOutcomes) = 1 /\ storyOutcomes[1].threw
    /\ Len(testResults) = 1
    /\ testRun.status = "cancelled"

\* the stories without a required role
NoRole == {k \in 1..Len(stories) : stories[k].required_role = Undefined}

\* C38: a story with no required role is never skipped and never
\* authenticated: it is handed to executeStory with credentials undefined, so
\* the login flow does not run, also when the environment's auth_config is of
\* type form and credentials exist for some roles.
C38_NoRoleNoLogin ==
    \A k \in NoRole :
       /\ lastResult[k] # "skipped"
       /\ k <= idx => \E n \in 1..Len(storyCalls) : storyCalls[n].story = k
       /\ \A n \in 1..Len(storyCalls) : storyCalls[n].story = k =>
             /\ ~storyCalls[n].options.credentials
             /\ ~ShouldAuthenticate(storyCalls[n].options)
       /\ \A n \in 1..Len(storyOutcomes) : storyOutcomes[n].story = k =>
             storyOutcomes[n].error # "Authentication failed: goto"

C38_Witness ==
    /\ rpc = "done"
    /\ Len(stories) = 2
    /\ NoRole = {2}
    /\ environment.auth_config = "form"
    /\ credentialsMap = Roles
    /\ Len(storyCalls) = 2
    /\ storyCalls[1].options.credentials
    /\ ~storyCalls[2].options.credentials
    /\ lastResult[2] = "passed"

\* the roles whose password the loop over the test users could not decrypt
FailedRoles == {decryptLog[n].role : n \in {m \in 1..Len(decryptLog) : decryptLog[m].threw}}

DecryptedRoles == {decryptLog[n].role : n \in {m \in 1..Len(decryptLog) : ~decryptLog[m].threw}}

ResultRowsOf(k) == {n \in 1..Len(testResults) : testResults[n].story_id = k}

StoryCallsOf(k) == {n \in 1..Len(storyCalls) : storyCalls[n].story = k}

\* what the claim says of the run apart from the reason of the skipped rows
DecryptFailureSkips ==
    /\ rpc # "start" => Len(decryptLog) = Len(testUsers)
    /\ \A r \in FailedRoles : r \notin credentialsMap
    /\ \A r \in DecryptedRoles : r \in credentialsMap
    /\ \A k \in 1..idx :
          stories[k].required_role \in FailedRoles =>
             /\ lastResult[k] = "skipped"
             /\ StoryCallsOf(k) = {}
             /\ Cardinality(ResultRowsOf(k)) = 1
             /\ \A n \in ResultRowsOf(k) : ~testResults[n].passed
    /\ counts.skipped = Cardinality({k \in 1..idx : lastResult[k] = "skipped"})
    /\ counts.failed = Cardinality({k \in 1..idx : lastResult[k] = "failed"})
    /\ \A k \in 1..idx :
          \/ stories[k].required_role = Undefined
          \/ /\ stories[k].required_role \in DecryptedRoles
             /\ environment.auth_config = "form"
          => /\ Cardinality(StoryCallsOf(k)) = 1
             /\ lastResult[k] \in {"passed", "failed"}
             /\ \A n \in StoryCallsOf(k) : storyCalls[n].options.credentials
                                         = (stories[k].required_role # Undefined)

\* C39 as stated: a failure to decrypt one test user's password does not
\* abort the run: the role is left out of the credentials map and every story
\* requiring it is recorded as skipped, counted in skipped and not in failed,
\* with the missing-test-user reason, while the other stories run.
C39_Original ==
    /\ DecryptFailureSkips
    /\ \A k \in 1..idx :
          stories[k].required_role \in FailedRoles =>
             \A n \in ResultRowsOf(k) :
                testResults[n].error
                   = "Missing test user for required role: " \o stories[k].required_role

\* C39: a failure to decrypt one test user's password does not abort the
\* run: the role is left out of the credentials map and every story requiring
\* it is recorded as skipped, counted in skipped and not in failed, while the
\* stories without a role, and under form login those of a decrypted role,
\* run. The reason recorded is the missing-test-user one when the
\* environment's auth_config is of type form, and the one about form login
\* not being configured otherwise.
C39_Amended ==
    /\ DecryptFailureSkips
    /\ \A k \in 1..idx :
          stories[k].required_role \in FailedRoles =>
             \A n \in ResultRowsOf(k) :
                testResults[n].error
                   = IF environment.auth_config = "form"
                     THEN "Missing test user for required role: "
                             \o stories[k].required_role
                     ELSE "Story requires role " \o stories[k].required_role
                             \o " but environment auth is not configured for form login"

C39_Witness ==
    /\ rpc = "done"
    /\ environment.auth_config = "form"
    /\ Len(testUsers) = 2
    /\ decryptLog = <<[role |-> "admin", threw |-> TRUE, error |-> InvalidFormat],
                      [role |-> "member", threw |-> FALSE, error |-> Undefined]>>
    /\ credentialsMap = {"member"}
    /\ Len(stories) = 2
    /\ stories[1].required_role = "admin"
    /\ stories[2].required_role = "member"
    /\ lastResult = <<"skipped", "passed">>
    /\ counts = [passed |-> 1, failed |-> 0, skipped |-> 1]
    /\ testRun.status = "completed"

\* C36: every ExecutionResult executeStory returns has passed true exactly
\* when error is unset, and no screenshot_url when passed is true; a
\* screenshot is captured only on a failing path and only when
\* screenshotOnFailure is set; a step that failed and then passed on a retry
\* leaves no error behind.
C36_PassedIffNoError ==
    /\ screenshots > 0 => ~passed /\ options.screenshotOnFailure
    /\ spc = "returned" =>
          /\ Result.passed <=> Result.error = Undefined
          /\ Result.passed => Result.screenshot_url = Undefined
          /\ Result.screenshot_url # Undefined => options.screenshotOnFailure
          /\ (\A n \in 1..Len(stepResults) : stepResults[n].passed)
                /\ caught = Undefined
                /\ (\A n \in 1..Len(verifyLog) : verifyLog[n].error = "")
             => Result.passed

C36_Witness ==
    /\ spc = "returned"
    /\ options.screenshotOnFailure
    /\ Result.passed
    /\ Result.retries > 0
    /\ lastError # Undefined
    /\ Result.error = Undefined
    /\ Result.screenshot_url = Undefined
    /\ screenshots = 0

\* C37: one executeStory call uploads at most one screenshot: the captures
\* after a failed step, after a failed verification and in the outer catch
\* never add up to two uploads, also when page.screenshot throws in one of
\* the first two and the outer catch captures again.
C37_OneUpload ==
    /\ uploads <= 1
    /\ screenshots <= 2
    /\ screenshots = 2 => caught = "screenshot failed"

C37_Witness ==
    /\ spc = "returned"
    /\ caught = "screenshot failed"
    /\ screenshots = 2
    /\ uploads = 1
    /\ Result.screenshot_url # Undefined
    /\ ~Result.passed
    /\ Len(stepResults) > 0

====
